---- MODULE Spec2Model ----
(***************************************************************************)
(* Gauge reading: calibration math (gauge/processing.py), the label-sweep  *)
(* auditor (labels.py) and the split partitioner (training.py).            *)
(*                                                                         *)
(* Numbers.  Angles are exact multiples of pi/4 ("units"): TwoPi is 8      *)
(* units, 45 degrees is one unit, and tip - center lies on one of the      *)
(* eight compass directions (or is the zero vector), where atan2 is exact. *)
(* Floats are exact rationals [num, den] in lowest terms with den > 0, so  *)
(* rounding is not modelled.                                               *)
(***************************************************************************)
EXTENDS Integers, Sequences, FiniteSets, TLC

VARIABLES
    toml,           \* the calibration file (gauge id -> entry in degrees)
    specs,          \* the table load_gauge_specs built from it
    samples,        \* the labelled samples of the run
    config,         \* the TrainConfig of the run
    result,         \* the last call: its arguments and its outcome
    rngKey,         \* which generator numpy's RandomState is (fixed for a run)
    npGlobalState,  \* the state of numpy's global generator
    firstSplit,     \* the first _split_examples call, and whether others followed
    scene,          \* what the needle detector is given: image, center, radius
    labelled,       \* the labelled directory: file name -> annotations.xml
    run,            \* the call of train in progress: its position and locals
    clock,          \* the wall clock datetime.now() reads, in ticks
    disk,           \* the file system: directories made and files written
    script          \* each run of the training script: its position and locals

vars == <<toml, specs, samples, config, result, rngKey, npGlobalState, firstSplit,
          scene, labelled, run, clock, disk, script>>
gaugeVars == <<toml, specs, samples>>
splitVars == <<config, rngKey, npGlobalState, firstSplit>>
detectVars == <<scene>>
ingestVars == <<labelled>>
trainVars == <<run>>
scriptVars == <<clock, disk, script>>

\* ------------------------------------------------------------------ bounds
MaxSamples == 2
MaxExamples == 4
MaxRngKey == 23
\* Split fractions are multiples of 1 / FracDen.
FracDen == 10

\* ------------------------------------------------------------- arithmetic
Abs(x) == IF x < 0 THEN -x ELSE x

RECURSIVE GCD(_, _)
GCD(a, b) == IF b = 0 THEN a ELSE GCD(b, a % b)

\* The rational n/d (d # 0) in lowest terms with a positive denominator.
Rat(n, d) ==
    LET g == GCD(Abs(n), Abs(d))
        s == IF d < 0 THEN -1 ELSE 1
    IN  [num |-> (s * n) \div g, den |-> (s * d) \div g]

FromInt(i) == [num |-> i, den |-> 1]
Zero == FromInt(0)
One == FromInt(1)
RatLT(a, b) == a.num * b.den < b.num * a.den
RatLE(a, b) == a.num * b.den <= b.num * a.den
\* The least common multiple of two positive denominators.
LCM(a, b) == (a \div GCD(a, b)) * b
\* a + b and a - b over the least common denominator.
RatAdd(a, b) ==
    LET l == LCM(a.den, b.den)
    IN  Rat(a.num * (l \div a.den) + b.num * (l \div b.den), l)
RatSub(a, b) ==
    LET l == LCM(a.den, b.den)
    IN  Rat(a.num * (l \div a.den) - b.num * (l \div b.den), l)
RatMul(a, b) == Rat(a.num * b.num, a.den * b.den)
\* a / b for b # 0.
RatDiv(a, b) == Rat(a.num * b.den, a.den * b.num)
\* math.ceil
Ceil(a) == -((-a.num) \div a.den)
\* Python's min(a, b) and max(a, b): the first argument unless the second is
\* strictly smaller (larger).
PyMin(a, b) == IF RatLT(b, a) THEN b ELSE a
PyMax(a, b) == IF RatLT(a, b) THEN b ELSE a

\* ------------------------------------------------------------ square roots
\* A length is a surd q * sqrt(r): q rational, r a square-free positive
\* integer, and r = 1 when q = 0 (so equal numbers are equal records).
Surd(q, r) == [q |-> q, r |-> IF q.num = 0 THEN 1 ELSE r]
SurdZero == Surd(Zero, 1)
SurdOfRat(a) == Surd(a, 1)

RECURSIVE ISqrtFrom(_, _)
ISqrtFrom(s, k) == IF (k + 1) * (k + 1) > s THEN k ELSE ISqrtFrom(s, k + 1)

\* The greatest k with k * k dividing s (s > 0).
RECURSIVE SquarePartFrom(_, _)
SquarePartFrom(s, k) == IF s % (k * k) = 0 THEN k ELSE SquarePartFrom(s, k - 1)
SquarePart(s) == SquarePartFrom(s, ISqrtFrom(s, 1))

\* math.hypot(dx, dy) of two rationals: sqrt(a^2 + b^2) / l over their
\* common denominator l.
Hypot(dx, dy) ==
    LET l == LCM(dx.den, dy.den)
        a == dx.num * (l \div dx.den)
        b == dy.num * (l \div dy.den)
        s == a * a + b * b
    IN  IF s = 0
        THEN SurdZero
        ELSE Surd(Rat(SquarePart(s), l), s \div (SquarePart(s) * SquarePart(s)))

SurdSign(a) == IF a.q.num < 0 THEN -1 ELSE IF a.q.num = 0 THEN 0 ELSE 1

\* |a| < |b| for two non-zero lengths under different roots: decided by the
\* integer bounds isqrt(r) <= sqrt(r) < isqrt(r) + 1 where they separate
\* the two, else by the squares.
SurdAbsLT(a, b) ==
    LET qa == [num |-> Abs(a.q.num), den |-> a.q.den]
        qb == [num |-> Abs(b.q.num), den |-> b.q.den]
        aLo == RatMul(qa, FromInt(ISqrtFrom(a.r, 1)))
        aHi == RatMul(qa, FromInt(ISqrtFrom(a.r, 1) + 1))
        bLo == RatMul(qb, FromInt(ISqrtFrom(b.r, 1)))
        bHi == RatMul(qb, FromInt(ISqrtFrom(b.r, 1) + 1))
    IN  IF RatLE(aHi, bLo)
        THEN TRUE
        ELSE IF RatLE(bHi, aLo)
        THEN FALSE
        ELSE RatLT(RatMul(RatMul(qa, qa), FromInt(a.r)),
                   RatMul(RatMul(qb, qb), FromInt(b.r)))

\* a < b: by the rational factors under a common root, else by the signs
\* and the magnitudes.
SurdLT(a, b) ==
    IF a.r = b.r
    THEN RatLT(a.q, b.q)
    ELSE IF SurdSign(a) # SurdSign(b)
    THEN SurdSign(a) < SurdSign(b)
    ELSE IF SurdSign(a) > 0 THEN SurdAbsLT(a, b) ELSE SurdAbsLT(b, a)
SurdLE(a, b) == ~SurdLT(b, a)

\* c * a for a rational c.
SurdScale(c, a) == Surd(RatMul(c, a.q), a.r)

\* a - b for two lengths under the same root (or one of them zero).
SurdSub(a, b) ==
    CASE b.q.num = 0 -> a
      [] a.q.num = 0 /\ b.q.num # 0 -> Surd(RatSub(Zero, b.q), b.r)
      [] a.q.num # 0 /\ b.q.num # 0 /\ a.r = b.r -> Surd(RatSub(a.q, b.q), a.r)

\* x / a for a rational x and a length a # 0: x / (q sqrt r) = x sqrt r / (q r).
RatDivSurd(x, a) == Surd(RatDiv(x, RatMul(a.q, FromInt(a.r))), a.r)

\* a * a, a rational.
SurdSquare(a) == RatMul(RatMul(a.q, a.q), FromInt(a.r))

\* ------------------------------------------------------------------ angles
\* 2.0 * math.pi, in units of pi/4.
TwoPi == 8

\* math.radians on a multiple of 45 degrees, in units of pi/4.
Radians(deg) == (deg * TwoPi) \div 360

\* math.atan2(dy, dx) in units of pi/4, range (-pi, pi]; atan2(0, 0) is 0.
Atan2(dy, dx) ==
    CASE dy = 0 /\ dx >= 0 -> 0
      [] dy = 0 /\ dx < 0 -> 4
      [] dx = 0 /\ dy > 0 -> 2
      [] dx = 0 /\ dy < 0 -> -2
      [] dy = dx /\ dx > 0 -> 1
      [] dy = -dx /\ dx < 0 -> 3
      [] dy = dx /\ dx < 0 -> -3
      [] dy = -dx /\ dx > 0 -> -1

\* ----------------------------------------------------------------- samples
Point(x, y) == [x |-> x, y |-> y]

EllipseLabel(cx, cy, rx, ry) == [cx |-> cx, cy |-> cy, rx |-> rx, ry |-> ry]

Sample(path, dial, cx, cy, tx, ty) ==
    [image_path |-> path, dial |-> dial,
     center |-> Point(cx, cy), tip |-> Point(tx, ty)]

\* The labelled samples a dataset is drawn from.
SamplePool ==
    { Sample("right.jpg", EllipseLabel(100, 200, 20, 10), 0, 0, 1, 0),
      Sample("down.jpg", EllipseLabel(50, 50, 10, 10), 0, 0, 0, 1),
      Sample("left.jpg", EllipseLabel(50, 50, 5, 8), 0, 0, -1, 0),
      Sample("up.jpg", EllipseLabel(60, 40, 30, 30), 0, 0, 0, -1),
      Sample("diag.jpg", EllipseLabel(10, 10, 4, 4), 0, 0, 1, 1),
      Sample("hub.jpg", EllipseLabel(0, 0, 0, 2), 0, 0, 0, 0),
      Sample("offset.jpg", EllipseLabel(1, 1, 1, 1), 1, 1, 1, 3) }

SampleLists == UNION { [1..n -> SamplePool] : n \in 0..MaxSamples }

\* ------------------------------------------------------- calibration table
TomlEntry(min_deg, sweep_deg, min_value, max_value) ==
    [min_deg |-> min_deg, sweep_deg |-> sweep_deg,
     min_value |-> min_value, max_value |-> max_value]

TomlEntries ==
    { TomlEntry(0, s, 0, 100) : s \in {-90, 0, 180, 270} }
    \cup { TomlEntry(135, s, -30, 50) : s \in {-90, 0, 180, 270} }

\* The calibration files: one gauge section, or two.
TomlFiles ==
    { [g \in {"gauge_a"} |-> e] : e \in TomlEntries }
    \cup { [g \in {"gauge_a", "gauge_b"} |->
              IF g = "gauge_a" THEN e ELSE TomlEntry(45, 270, -20, 40)]
           : e \in TomlEntries }

GaugeSpec(gauge_id, min_angle_rad, sweep_rad, min_value, max_value) ==
    [gauge_id |-> gauge_id, min_angle_rad |-> min_angle_rad,
     sweep_rad |-> sweep_rad, min_value |-> min_value, max_value |-> max_value]

load_gauge_specs(raw) ==
    [gauge_id \in DOMAIN raw |->
        GaugeSpec(gauge_id,
                  Radians(raw[gauge_id].min_deg),
                  Radians(raw[gauge_id].sweep_deg),
                  raw[gauge_id].min_value,
                  raw[gauge_id].max_value)]

\* ------------------------------------------------------------- conversions
needle_angle_clockwise_rad(sample) ==
    Atan2(sample.tip.y - sample.center.y, sample.tip.x - sample.center.x)

\* (raw_angle - spec.min_angle_rad) % (2.0 * math.pi): in [0, 2 pi).
Shifted(sample, spec) ==
    (needle_angle_clockwise_rad(sample) - spec.min_angle_rad) % TwoPi

\* The outcome of a call: what it returns, or the exception it raises.
Returned(v) == [status |-> "ok", value |-> v]
Raised(e) == [status |-> e]
ValueError(msg) == [status |-> "ValueError", message |-> msg]

needle_fraction(sample, spec, strict) ==
    LET shifted == Shifted(sample, spec)
    IN  IF strict /\ shifted > spec.sweep_rad
        THEN ValueError("Needle angle outside sweep for gauge.")
        ELSE IF spec.sweep_rad = 0
        THEN Raised("ZeroDivisionError")
        ELSE Returned(PyMin(Rat(shifted, spec.sweep_rad), One))

\* needle_value with the value range taken as max_value, not max - min.
needle_value_no_offset(sample, spec, strict) ==
    LET fraction == needle_fraction(sample, spec, strict)
    IN  IF fraction.status # "ok"
        THEN fraction
        ELSE Returned(RatAdd(FromInt(spec.min_value),
                             RatMul(fraction.value, FromInt(spec.max_value))))

needle_value(sample, spec, strict) ==
    LET fraction == needle_fraction(sample, spec, strict)
    IN  IF fraction.status # "ok"
        THEN fraction
        ELSE Returned(RatAdd(FromInt(spec.min_value),
                             RatMul(fraction.value,
                                    FromInt(spec.max_value - spec.min_value))))

\* ------------------------------------------------------------ label auditor
LabelSummary(total_samples, in_sweep, out_of_sweep, min_fraction, max_fraction) ==
    [total_samples |-> total_samples, in_sweep |-> in_sweep,
     out_of_sweep |-> out_of_sweep,
     min_fraction |-> min_fraction, max_fraction |-> max_fraction]

\* min(fractions) and max(fractions) of a non-empty list.
RECURSIVE MinOf(_)
MinOf(fs) == IF Len(fs) = 1 THEN fs[1] ELSE PyMin(fs[1], MinOf(Tail(fs)))

RECURSIVE MaxOf(_)
MaxOf(fs) == IF Len(fs) = 1 THEN fs[1] ELSE PyMax(fs[1], MaxOf(Tail(fs)))

\* The loop of summarize_label_sweep from samples[i] on: a ValueError is
\* caught and counted, any other exception leaves the function.
RECURSIVE SweepLoop(_, _, _, _, _)
SweepLoop(smpls, spec, i, fractions, out_of_sweep) ==
    IF i > Len(smpls)
    THEN Returned([fractions |-> fractions, out_of_sweep |-> out_of_sweep])
    ELSE LET fraction == needle_fraction(smpls[i], spec, TRUE)
         IN  IF fraction.status = "ValueError"
             THEN SweepLoop(smpls, spec, i + 1, fractions, out_of_sweep + 1)
             ELSE IF fraction.status # "ok"
             THEN fraction
             ELSE SweepLoop(smpls, spec, i + 1,
                            Append(fractions, fraction.value), out_of_sweep)

\* summarize_label_sweep reporting every sample as in sweep.
summarize_counts_all(smpls, spec) ==
    LET loop == SweepLoop(smpls, spec, 1, <<>>, 0)
    IN  IF loop.status # "ok"
        THEN loop
        ELSE LET fractions == loop.value.fractions
             IN  Returned(LabelSummary(
                     Len(smpls),
                     Len(smpls),
                     loop.value.out_of_sweep,
                     IF fractions # <<>> THEN MinOf(fractions) ELSE Zero,
                     IF fractions # <<>> THEN MaxOf(fractions) ELSE Zero))

summarize_label_sweep(smpls, spec) ==
    LET loop == SweepLoop(smpls, spec, 1, <<>>, 0)
    IN  IF loop.status # "ok"
        THEN loop
        ELSE LET fractions == loop.value.fractions
             IN  Returned(LabelSummary(
                     Len(smpls),
                     Len(fractions),
                     loop.value.out_of_sweep,
                     IF fractions # <<>> THEN MinOf(fractions) ELSE Zero,
                     IF fractions # <<>> THEN MaxOf(fractions) ELSE Zero))

\* --------------------------------------------------------- example builder
TrainingExample(image_path, value, crop_box_xyxy, needle_unit_xy) ==
    [image_path |-> image_path, value |-> value,
     crop_box_xyxy |-> crop_box_xyxy, needle_unit_xy |-> needle_unit_xy]

\* crop_pad_ratio: none, the one of the tests, and a negative one.
PadRatios == { Zero, Rat(1, 10), FromInt(-2) }

\* _compute_crop_box without the padding.
_compute_crop_box_unpadded(sample, pad_ratio) ==
    << FromInt(sample.dial.cx - sample.dial.rx),
       FromInt(sample.dial.cy - sample.dial.ry),
       FromInt(sample.dial.cx + sample.dial.rx),
       FromInt(sample.dial.cy + sample.dial.ry) >>

_compute_crop_box(sample, pad_ratio) ==
    LET pad_x == RatMul(FromInt(sample.dial.rx), pad_ratio)
        pad_y == RatMul(FromInt(sample.dial.ry), pad_ratio)
        x_min == RatSub(FromInt(sample.dial.cx - sample.dial.rx), pad_x)
        y_min == RatSub(FromInt(sample.dial.cy - sample.dial.ry), pad_y)
        x_max == RatAdd(FromInt(sample.dial.cx + sample.dial.rx), pad_x)
        y_max == RatAdd(FromInt(sample.dial.cy + sample.dial.ry), pad_y)
    IN  << x_min, y_min, x_max, y_max >>

\* What one pass of the builder's loop adds: examples and dropped samples.
Kept(example) == Returned([examples |-> << example >>, dropped |-> 0])
Dropped == Returned([examples |-> << >>, dropped |-> 1])

\* The example built from a validated sample of non-zero needle length.
ExampleOf(sample, value, crop_pad_ratio) ==
    LET dx == FromInt(sample.tip.x - sample.center.x)
        dy == FromInt(sample.tip.y - sample.center.y)
        length == Hypot(dx, dy)
    IN  TrainingExample(sample.image_path, value,
                        _compute_crop_box(sample, crop_pad_ratio),
                        << RatDivSurd(dx, length), RatDivSurd(dy, length) >>)

\* The loop body validating the sweep under strict_labels, not always strictly.
BuildStep_validate_as_labelled(sample, spec, strict_labels, crop_pad_ratio) ==
    LET validation == needle_fraction(sample, spec, strict_labels)
        value == needle_value(sample, spec, strict_labels)
        length == Hypot(FromInt(sample.tip.x - sample.center.x),
                        FromInt(sample.tip.y - sample.center.y))
    IN  IF validation.status = "ValueError"
        THEN Dropped
        ELSE IF validation.status # "ok"
        THEN validation
        ELSE IF value.status # "ok"
        THEN value
        ELSE IF SurdLE(length, SurdZero)
        THEN Dropped
        ELSE Kept(ExampleOf(sample, value.value, crop_pad_ratio))

\* The loop body skipping a zero-length needle without counting it.
BuildStep_skip_uncounted(sample, spec, strict_labels, crop_pad_ratio) ==
    LET validation == needle_fraction(sample, spec, TRUE)
        value == needle_value(sample, spec, strict_labels)
        length == Hypot(FromInt(sample.tip.x - sample.center.x),
                        FromInt(sample.tip.y - sample.center.y))
    IN  IF validation.status = "ValueError"
        THEN Dropped
        ELSE IF validation.status # "ok"
        THEN validation
        ELSE IF value.status # "ok"
        THEN value
        ELSE IF SurdLE(length, SurdZero)
        THEN Returned([examples |-> << >>, dropped |-> 0])
        ELSE Kept(ExampleOf(sample, value.value, crop_pad_ratio))

\* The loop body without the zero-length test: the hub sample is kept with
\* the zero vector as its direction.
BuildStep_keep_zero_length(sample, spec, strict_labels, crop_pad_ratio) ==
    LET validation == needle_fraction(sample, spec, TRUE)
        value == needle_value(sample, spec, strict_labels)
        length == Hypot(FromInt(sample.tip.x - sample.center.x),
                        FromInt(sample.tip.y - sample.center.y))
    IN  IF validation.status = "ValueError"
        THEN Dropped
        ELSE IF validation.status # "ok"
        THEN validation
        ELSE IF value.status # "ok"
        THEN value
        ELSE IF SurdLE(length, SurdZero)
        THEN Kept(TrainingExample(sample.image_path, value.value,
                                  _compute_crop_box(sample, crop_pad_ratio),
                                  << SurdZero, SurdZero >>))
        ELSE Kept(ExampleOf(sample, value.value, crop_pad_ratio))

\* The builder's loop body leaving out a zero-length needle without
\* counting it as dropped.
BuildStep_zero_length_uncounted(sample, spec, strict_labels, crop_pad_ratio) ==
    LET validation == needle_fraction(sample, spec, TRUE)
        value == needle_value(sample, spec, strict_labels)
        length == Hypot(FromInt(sample.tip.x - sample.center.x),
                        FromInt(sample.tip.y - sample.center.y))
    IN  IF validation.status = "ValueError"
        THEN Dropped
        ELSE IF validation.status # "ok"
        THEN validation
        ELSE IF value.status # "ok"
        THEN value
        ELSE IF SurdLE(length, SurdZero)
        THEN Returned([examples |-> << >>, dropped |-> 0])
        ELSE Kept(ExampleOf(sample, value.value, crop_pad_ratio))

\* The body of the builder's loop for one sample: the sweep is validated
\* strictly and a ValueError counts the sample as dropped; the value is
\* computed under strict_labels; a zero-length needle is dropped too.
BuildStep(sample, spec, strict_labels, crop_pad_ratio) ==
    LET validation == needle_fraction(sample, spec, TRUE)
        value == needle_value(sample, spec, strict_labels)
        length == Hypot(FromInt(sample.tip.x - sample.center.x),
                        FromInt(sample.tip.y - sample.center.y))
    IN  IF validation.status = "ValueError"
        THEN Dropped
        ELSE IF validation.status # "ok"
        THEN validation
        ELSE IF value.status # "ok"
        THEN value
        ELSE IF SurdLE(length, SurdZero)
        THEN Dropped
        ELSE Kept(ExampleOf(sample, value.value, crop_pad_ratio))

\* The builder's loop from smpls[i] on; an exception that is not caught
\* leaves the function.
RECURSIVE BuildLoop(_, _, _, _, _, _, _)
BuildLoop(smpls, spec, strict_labels, crop_pad_ratio, i, examples, dropped) ==
    IF i > Len(smpls)
    THEN Returned([examples |-> examples, dropped |-> dropped])
    ELSE LET step == BuildStep(smpls[i], spec, strict_labels, crop_pad_ratio)
         IN  IF step.status # "ok"
             THEN step
             ELSE BuildLoop(smpls, spec, strict_labels, crop_pad_ratio, i + 1,
                            examples \o step.value.examples,
                            dropped + step.value.dropped)

_build_training_examples(smpls, spec, strict_labels, crop_pad_ratio) ==
    BuildLoop(smpls, spec, strict_labels, crop_pad_ratio, 1, << >>, 0)

\* ------------------------------------------------------- split partitioner
\* The fields of TrainConfig the model follows; those that are no parameter
\* here hold the dataclass defaults ("gauge_a" stands for the default gauge).
TrainConfig(seed, val_fraction, test_fraction, mobilenet_warmup_epochs) ==
    [gauge_id |-> "gauge_a", epochs |-> 40, seed |-> seed,
     val_fraction |-> val_fraction, test_fraction |-> test_fraction,
     strict_labels |-> TRUE, crop_pad_ratio |-> Rat(1, 4), device |-> "auto",
     model_family |-> "compact", mobilenet_pretrained |-> TRUE,
     mobilenet_backbone_trainable |-> FALSE,
     mobilenet_warmup_epochs |-> mobilenet_warmup_epochs]

\* The seeds of the runs: TrainConfig's default and the one of the tests.
Seeds == {21, 123}

\* (val_fraction, test_fraction) in multiples of 1 / FracDen: three that
\* pass the validation, and one for each way of failing it.
FractionPairs ==
    { <<2, 2>>, <<2, 5>>, <<5, 2>>,
      <<0, 2>>, <<2, FracDen>>, <<5, FracDen - 5>> }

\* mobilenet_warmup_epochs: the default of TrainConfig, none, and a negative one.
WarmupEpochs == {-1, 0, 8}

TrainConfigs ==
    { TrainConfig(s, Rat(p[1], FracDen), Rat(p[2], FracDen), w) :
        s \in Seeds, p \in FractionPairs, w \in WarmupEpochs }

\* TrainConfig(): seed = 21, val_fraction = test_fraction = 0.15,
\* mobilenet_warmup_epochs = 8.
DefaultConfig == TrainConfig(21, Rat(15, 100), Rat(15, 100), 8)

\* _validate_split_config with the sum test written > instead of >=.
_validate_split_config_sum_gt(cfg) ==
    IF ~(RatLT(Zero, cfg.val_fraction) /\ RatLT(cfg.val_fraction, One))
    THEN ValueError("val_fraction must be in (0, 1).")
    ELSE IF ~(RatLT(Zero, cfg.test_fraction) /\ RatLT(cfg.test_fraction, One))
    THEN ValueError("test_fraction must be in (0, 1).")
    ELSE IF RatLT(One, RatAdd(cfg.val_fraction, cfg.test_fraction))
    THEN ValueError("val_fraction + test_fraction must be < 1.0.")
    ELSE IF cfg.mobilenet_warmup_epochs < 0
    THEN ValueError("mobilenet_warmup_epochs must be >= 0.")
    ELSE Returned("None")

\* _validate_split_config without the test of the warmup epochs.
_validate_split_config_any_warmup(cfg) ==
    IF ~(RatLT(Zero, cfg.val_fraction) /\ RatLT(cfg.val_fraction, One))
    THEN ValueError("val_fraction must be in (0, 1).")
    ELSE IF ~(RatLT(Zero, cfg.test_fraction) /\ RatLT(cfg.test_fraction, One))
    THEN ValueError("test_fraction must be in (0, 1).")
    ELSE IF RatLE(One, RatAdd(cfg.val_fraction, cfg.test_fraction))
    THEN ValueError("val_fraction + test_fraction must be < 1.0.")
    ELSE Returned("None")

_validate_split_config(cfg) ==
    IF ~(RatLT(Zero, cfg.val_fraction) /\ RatLT(cfg.val_fraction, One))
    THEN ValueError("val_fraction must be in (0, 1).")
    ELSE IF ~(RatLT(Zero, cfg.test_fraction) /\ RatLT(cfg.test_fraction, One))
    THEN ValueError("test_fraction must be in (0, 1).")
    ELSE IF RatLE(One, RatAdd(cfg.val_fraction, cfg.test_fraction))
    THEN ValueError("val_fraction + test_fraction must be < 1.0.")
    ELSE IF cfg.mobilenet_warmup_epochs < 0
    THEN ValueError("mobilenet_warmup_epochs must be >= 0.")
    ELSE Returned("None")


\* A list of n examples, one per image.
ExampleList(n) ==
    [i \in 1..n |-> TrainingExample(i, Zero, << Zero, Zero, Zero, Zero >>,
                                    << SurdOfRat(One), SurdZero >>)]

RECURSIVE Factorial(_)
Factorial(n) == IF n <= 1 THEN 1 ELSE n * Factorial(n - 1)

Without(seq, i) == [k \in 1..(Len(seq) - 1) |-> IF k < i THEN seq[k] ELSE seq[k + 1]]

\* The k-th arrangement (k in 0 .. n! - 1) of the items, in lexicographic order.
RECURSIVE NthArrangement(_, _)
NthArrangement(k, items) ==
    IF Len(items) = 0
    THEN <<>>
    ELSE LET block == Factorial(Len(items) - 1)
             pick == (k \div block) + 1
         IN  <<items[pick]>> \o NthArrangement(k % block, Without(items, pick))

\* numpy.random.RandomState(state).permutation(n), as positions 1..n.  The
\* Mersenne Twister is outside the repository: it is some fixed function of
\* the generator state and n, and rngKey says which.
PermutationTable ==
    [key \in 0..MaxRngKey, state \in Seeds, n \in 1..MaxExamples |->
        NthArrangement((key + state) % Factorial(n), [i \in 1..n |-> i])]

Permutation(state, n) == PermutationTable[rngKey, state, n]

\* sklearn.model_selection.train_test_split(arr, test_size=<float>,
\* random_state=<state>, shuffle=True): test is the first ceil(test_size * n)
\* entries of the permutation, train the rest.
train_test_split(arr, test_size, random_state) ==
    LET n == Len(arr)
        n_test == Ceil(RatMul(test_size, FromInt(n)))
        n_train == n - n_test
    IN  IF ~(RatLT(Zero, test_size) /\ RatLT(test_size, One))
        THEN ValueError("test_size should be a float in the (0, 1) range")
        ELSE IF n_train = 0
        THEN ValueError("the resulting train set will be empty")
        ELSE LET permutation == Permutation(random_state, n)
             IN  Returned([train |-> [k \in 1..n_train |-> arr[permutation[n_test + k]]],
                           test |-> [k \in 1..n_test |-> arr[permutation[k]]]])

DatasetSplit(train_examples, val_examples, test_examples) ==
    [train_examples |-> train_examples, val_examples |-> val_examples,
     test_examples |-> test_examples]

\* np.arange(len(examples)), as positions 1..n.
Arange(n) == [i \in 1..n |-> i]

\* _split_examples with the generator state both shuffles start from.
SplitFrom(examples, cfg, random_state) ==
    IF Len(examples) < 3
    THEN ValueError("Need at least 3 examples to create train/val/test splits.")
    ELSE LET indices == Arange(Len(examples))
             first == train_test_split(indices, cfg.test_fraction, random_state)
         IN  IF first.status # "ok"
             THEN first
             ELSE LET train_val_idx == first.value.train
                      test_idx == first.value.test
                      val_relative == RatDiv(cfg.val_fraction,
                                             RatSub(One, cfg.test_fraction))
                      second == train_test_split(train_val_idx, val_relative,
                                                 random_state)
                  IN  IF second.status # "ok"
                      THEN second
                      ELSE LET train_idx == second.value.train
                               val_idx == second.value.test
                           IN  Returned(DatasetSplit(
                                   [k \in 1..Len(train_idx) |-> examples[train_idx[k]]],
                                   [k \in 1..Len(val_idx) |-> examples[val_idx[k]]],
                                   [k \in 1..Len(test_idx) |-> examples[test_idx[k]]]))

\* _split_examples with random_state=None: both shuffles draw from numpy's
\* global generator.
_split_examples_global_rng(examples, cfg) ==
    SplitFrom(examples, cfg, npGlobalState)

\* _split_examples whose second train_test_split is given indices, not
\* train_val_idx.
_split_examples_resplit_all(examples, cfg) ==
    LET split == SplitFrom(examples, cfg, cfg.seed)
        indices == Arange(Len(examples))
        val_relative == RatDiv(cfg.val_fraction, RatSub(One, cfg.test_fraction))
        second == train_test_split(indices, val_relative, cfg.seed)
    IN  IF split.status # "ok"
        THEN split
        ELSE Returned(DatasetSplit(
                 [k \in 1..Len(second.value.train) |-> examples[second.value.train[k]]],
                 [k \in 1..Len(second.value.test) |-> examples[second.value.test[k]]],
                 split.value.test_examples))

\* The examples of a list in ascending image order.
RECURSIVE SortedByImage(_)
SortedByImage(seq) ==
    IF Len(seq) = 0
    THEN <<>>
    ELSE LET least == CHOOSE i \in 1..Len(seq) :
                          \A j \in 1..Len(seq) : seq[i].image_path <= seq[j].image_path
         IN  <<seq[least]>> \o SortedByImage(Without(seq, least))

\* _split_examples with each index array sorted before the examples are
\* picked.
_split_examples_sorted(examples, cfg) ==
    LET split == SplitFrom(examples, cfg, cfg.seed)
    IN  IF split.status # "ok"
        THEN split
        ELSE Returned(DatasetSplit(SortedByImage(split.value.train_examples),
                                   SortedByImage(split.value.val_examples),
                                   SortedByImage(split.value.test_examples)))

_split_examples(examples, cfg) == SplitFrom(examples, cfg, cfg.seed)

\* -------------------------------------------------- classical needle detector
MaxSegments == 2

\* The tolerance 1e-6 of the detector's two degeneracy tests.
Eps == SurdOfRat(Rat(1, 1000000))

\* One row of the array cv2.HoughLinesP returns: the endpoints of a segment.
Segment(x1, y1, x2, y2) == << x1, y1, x2, y2 >>

\* The segments the line transform may report, as offsets from the dial
\* center: needles along the axes and the diagonal, off-center clutter,
\* a segment of no length, and two segments around the center itself.
SegmentOffsets ==
    { Segment(FromInt(2), Zero, FromInt(10), Zero),
      Segment(FromInt(-2), Zero, FromInt(8), Zero),
      Segment(Zero, FromInt(9), Zero, FromInt(-3)),
      Segment(FromInt(-4), Zero, FromInt(4), Zero),
      Segment(One, One, FromInt(5), FromInt(5)),
      Segment(FromInt(3), FromInt(4), FromInt(6), FromInt(8)),
      Segment(FromInt(3), Zero, FromInt(3), FromInt(8)),
      Segment(FromInt(5), Zero, FromInt(5), Zero),
      Segment(Zero, Zero, Zero, Zero),
      Segment(Rat(-3, 4000000), Zero, Rat(3, 4000000), Zero) }

\* The dial centers: the origin and the one of the synthetic test image.
Centers == { << Zero, Zero >>, << FromInt(120), FromInt(120) >> }

SegmentsAround(center_xy) ==
    { Segment(RatAdd(o[1], center_xy[1]), RatAdd(o[2], center_xy[2]),
              RatAdd(o[3], center_xy[1]), RatAdd(o[4], center_xy[2]))
      : o \in SegmentOffsets }

\* dial_radius_px: below, at and above the threshold 1.0, and the test's 90.
Radii == { Rat(1, 2), One, Rat(3, 2), FromInt(90) }

\* An image is known by whether cv2.cvtColor accepts it (three channels)
\* and by what the line transform finds in it for the given center and
\* radius: None, or a non-empty array of segments.
NoLines == [found |-> FALSE]
Lines(rows) == [found |-> TRUE, rows |-> rows]
Image(format, lines) == [format |-> format, lines |-> lines]

Scene(image_bgr, center_xy, dial_radius_px) ==
    [given |-> TRUE, image_bgr |-> image_bgr, center_xy |-> center_xy,
     dial_radius_px |-> dial_radius_px]

\* The arrays of up to MaxSegments rows around a center.
RowLists(center_xy) ==
    UNION { [1..n -> SegmentsAround(center_xy)] : n \in 1..MaxSegments }

Scenes ==
    UNION { { Scene(Image(format, lines), c, r)
              : format \in {"bgr", "gray"},
                lines \in {NoLines} \cup { Lines(rows) : rows \in RowLists(c) },
                r \in Radii }
            : c \in Centers }

\* The result "NeedleDetection | None".
None == [detected |-> FALSE]
NeedleDetection(unit_dx, unit_dy, confidence) ==
    [detected |-> TRUE, unit_dx |-> unit_dx, unit_dy |-> unit_dy,
     confidence |-> confidence]

\* float("-inf"), and score > best_score.
NegInf == [inf |-> -1]
ScoreGT(score, best_score) ==
    IF best_score = NegInf THEN TRUE ELSE SurdLT(best_score, score)

\* Python's max(a, b) of two lengths.
SurdMax(a, b) == IF SurdLT(a, b) THEN b ELSE a

\* seg_len - 1.5 * midpoint_dist_to_center of one row.
SegLen(line) == Hypot(RatSub(line[3], line[1]), RatSub(line[4], line[2]))
MidpointDist(line, center_xy) ==
    LET mid_x == RatMul(Rat(1, 2), RatAdd(line[1], line[3]))
        mid_y == RatMul(Rat(1, 2), RatAdd(line[2], line[4]))
    IN  Hypot(RatSub(mid_x, center_xy[1]), RatSub(mid_y, center_xy[2]))
Score(line, center_xy) ==
    SurdSub(SegLen(line), SurdScale(Rat(3, 2), MidpointDist(line, center_xy)))

\* The endpoint taken as the needle tip: (x1, y1) if it is strictly farther
\* from the center than (x2, y2), else (x2, y2).
TipOf(line, center_xy) ==
    LET endpoint1_r == Hypot(RatSub(line[1], center_xy[1]),
                             RatSub(line[2], center_xy[2]))
        endpoint2_r == Hypot(RatSub(line[3], center_xy[1]),
                             RatSub(line[4], center_xy[2]))
    IN  IF SurdLT(endpoint2_r, endpoint1_r)
        THEN << line[1], line[2] >>
        ELSE << line[3], line[4] >>

\* The detector's loop over the rows from rows[i] on.  A row of length
\* <= 1e-6 is skipped.  A row that beats best_score sets best_score first;
\* best_unit_vec is set after it, unless the tip is within 1e-6 of the
\* center, in which case the loop moves on with the new best_score and the
\* old best_unit_vec.
RECURSIVE ScoreLoop(_, _, _, _, _)

\* The end of the loop body for a row that beat best_score, given the
\* offset of its tip from the center and the length norm of that offset.
TakeTip(rows, center_xy, i, score, best_unit_vec, tip_dx, tip_dy, norm) ==
    IF SurdLE(norm, Eps)
    THEN ScoreLoop(rows, center_xy, i + 1, score, best_unit_vec)
    ELSE ScoreLoop(rows, center_xy, i + 1, score,
                   [found |-> TRUE,
                    xy |-> << RatDivSurd(tip_dx, norm),
                              RatDivSurd(tip_dy, norm) >>])

\* The loop body for rows[i], given its length, score and tip: a row of
\* length <= 1e-6 and a row that does not beat best_score are passed over.
ScoreRow(rows, center_xy, i, best_score, best_unit_vec, seg_len, score, tip) ==
    IF SurdLE(seg_len, Eps) \/ ~ScoreGT(score, best_score)
    THEN ScoreLoop(rows, center_xy, i + 1, best_score, best_unit_vec)
    ELSE TakeTip(rows, center_xy, i, score, best_unit_vec,
                 RatSub(tip[1], center_xy[1]), RatSub(tip[2], center_xy[2]),
                 Hypot(RatSub(tip[1], center_xy[1]),
                       RatSub(tip[2], center_xy[2])))

ScoreLoop(rows, center_xy, i, best_score, best_unit_vec) ==
    IF i > Len(rows)
    THEN [best_score |-> best_score, best_unit_vec |-> best_unit_vec]
    ELSE ScoreRow(rows, center_xy, i, best_score, best_unit_vec,
                  SegLen(rows[i]), Score(rows[i], center_xy),
                  TipOf(rows[i], center_xy))

\* The return statement after the loop.
DetectionOf(best) ==
    IF ~best.best_unit_vec.found
    THEN Returned(None)
    ELSE Returned(NeedleDetection(best.best_unit_vec.xy[1],
                                  best.best_unit_vec.xy[2],
                                  SurdMax(best.best_score, SurdZero)))

\* detect_needle_unit_vector with the radius test after the color conversion.
detect_needle_unit_vector_late_guard(image_bgr, center_xy, dial_radius_px) ==
    IF image_bgr.format # "bgr"
    THEN Raised("cv2.error")
    ELSE IF RatLE(dial_radius_px, One)
    THEN Returned(None)
    ELSE IF ~image_bgr.lines.found
    THEN Returned(None)
    ELSE DetectionOf(ScoreLoop(image_bgr.lines.rows, center_xy, 1, NegInf,
                               [found |-> FALSE]))

\* The radius test comes first; cv2.cvtColor raises on an image that is not
\* three-channel; the edge map, the annulus mask and the line transform are
\* cv2's and numpy's, and give image_bgr.lines.
detect_needle_unit_vector(image_bgr, center_xy, dial_radius_px) ==
    IF RatLE(dial_radius_px, One)
    THEN Returned(None)
    ELSE IF image_bgr.format # "bgr"
    THEN Raised("cv2.error")
    ELSE IF ~image_bgr.lines.found
    THEN Returned(None)
    ELSE DetectionOf(ScoreLoop(image_bgr.lines.rows, center_xy, 1, NegInf,
                               [found |-> FALSE]))

\* ---------------------------------------------- classical baseline evaluation
ClassicalPrediction(image_path, true_value, predicted_value, abs_error, confidence) ==
    [image_path |-> image_path, true_value |-> true_value,
     predicted_value |-> predicted_value, abs_error |-> abs_error,
     confidence |-> confidence]

ClassicalBaselineResult(attempted_samples, successful_samples, failed_samples, mae, rmse, predictions) ==
    [attempted_samples |-> attempted_samples,
     successful_samples |-> successful_samples,
     failed_samples |-> failed_samples,
     mae |-> mae, rmse |-> rmse, predictions |-> predictions]

\* float("nan")
NaN == [nan |-> TRUE]

\* max_samples: None, or a cap.
NoCap == [capped |-> FALSE]
Cap(n) == [capped |-> TRUE, n |-> n]
Caps == {NoCap} \cup { Cap(n) : n \in 0..MaxSamples }

\* cv2.imread: None for a file that cannot be read, else the image, known
\* by what the line transform finds in it around the labelled center.
NoImage == [readable |-> FALSE]
Readable(lines) == [readable |-> TRUE, image |-> Image("bgr", lines)]
imread(image_path) ==
    CASE image_path = "right.jpg" ->
            Readable(Lines(<< Segment(FromInt(-2), Zero, FromInt(8), Zero) >>))
      [] image_path = "down.jpg" -> NoImage
      [] image_path = "left.jpg" -> Readable(NoLines)
      [] image_path = "up.jpg" ->
            Readable(Lines(<< Segment(Zero, FromInt(9), Zero, FromInt(-3)) >>))
      [] image_path = "diag.jpg" ->
            Readable(Lines(<< Segment(One, One, FromInt(5), FromInt(5)) >>))
      [] image_path = "hub.jpg" ->
            Readable(Lines(<< Segment(FromInt(2), Zero, FromInt(10), Zero) >>))
      [] image_path = "offset.jpg" ->
            Readable(Lines(<< Segment(One, FromInt(2), One, FromInt(9)) >>))

\* math.atan2 of a unit vector along one of the eight compass directions.
Atan2Unit(unit_dy, unit_dx) ==
    CASE unit_dx = SurdZero \/ unit_dy = SurdZero
            \/ SurdSquare(unit_dx) = SurdSquare(unit_dy) ->
            Atan2(SurdSign(unit_dy), SurdSign(unit_dx))

\* _needle_vector_to_value without the wrap of the shifted angle into
\* [0, 2 pi).
_needle_vector_to_value_unwrapped(unit_dx, unit_dy, spec) ==
    LET raw_angle == Atan2Unit(unit_dy, unit_dx)
        shifted == raw_angle - spec.min_angle_rad
    IN  IF spec.sweep_rad = 0
        THEN Raised("ZeroDivisionError")
        ELSE LET fraction == PyMin(PyMax(Rat(shifted, spec.sweep_rad), Zero), One)
             IN  Returned(RatAdd(FromInt(spec.min_value),
                                 RatMul(fraction,
                                        FromInt(spec.max_value - spec.min_value))))

_needle_vector_to_value(unit_dx, unit_dy, spec) ==
    LET raw_angle == Atan2Unit(unit_dy, unit_dx)
        shifted == (raw_angle - spec.min_angle_rad) % TwoPi
    IN  IF spec.sweep_rad = 0
        THEN Raised("ZeroDivisionError")
        ELSE LET fraction == PyMin(PyMax(Rat(shifted, spec.sweep_rad), Zero), One)
             IN  Returned(RatAdd(FromInt(spec.min_value),
                                 RatMul(fraction,
                                        FromInt(spec.max_value - spec.min_value))))

\* abs(x)
RatAbs(a) == [num |-> Abs(a.num), den |-> a.den]

\* np.sqrt of a rational a >= 0, kept as the number whose square is a.
Sqrt(a) == [square |-> a]

\* np.mean of the errors, and of their squares.
RECURSIVE SumOf(_)
SumOf(xs) == IF xs = << >> THEN Zero ELSE RatAdd(xs[1], SumOf(Tail(xs)))
Mean(xs) == RatDiv(SumOf(xs), FromInt(Len(xs)))

\* What one pass of the evaluation loop adds to predictions.
NoPrediction == Returned(<< >>)

\* The prediction appended for a sample with a detection, given its true and
\* its predicted value; a conversion that raised leaves the function.
PredictionOf(sample, detection, true_value, predicted_value) ==
    IF true_value.status # "ok"
    THEN true_value
    ELSE IF predicted_value.status # "ok"
    THEN predicted_value
    ELSE Returned(<< ClassicalPrediction(
                         sample.image_path,
                         true_value.value,
                         predicted_value.value,
                         RatAbs(RatSub(predicted_value.value, true_value.value)),
                         detection.confidence) >>)

\* The loop body after the detector ran: no detection moves on.
AfterDetection(sample, spec, detection) ==
    IF detection.status # "ok"
    THEN detection
    ELSE IF ~detection.value.detected
    THEN NoPrediction
    ELSE PredictionOf(sample, detection.value,
                      needle_value(sample, spec, FALSE),
                      _needle_vector_to_value(detection.value.unit_dx,
                                              detection.value.unit_dy, spec))

\* The loop body after cv2.imread: an unreadable image moves on; else the
\* detector runs with the labelled center and max(dial.rx, dial.ry).
AfterRead(sample, spec, image_bgr) ==
    IF ~image_bgr.readable
    THEN NoPrediction
    ELSE AfterDetection(
             sample, spec,
             detect_needle_unit_vector(
                 image_bgr.image,
                 << FromInt(sample.center.x), FromInt(sample.center.y) >>,
                 FromInt(IF sample.dial.ry > sample.dial.rx
                         THEN sample.dial.ry ELSE sample.dial.rx)))

\* The loop of evaluate_classical_baseline from smpls[i] on: a sample is
\* attempted unless the cap is reached; an exception leaves the function.
RECURSIVE EvalLoop(_, _, _, _, _, _)

EvalNext(smpls, spec, max_samples, i, attempted, predictions, step) ==
    IF step.status # "ok"
    THEN step
    ELSE EvalLoop(smpls, spec, max_samples, i + 1, attempted + 1,
                  predictions \o step.value)

\* The loop with the cap tested one sample late.
EvalLoop_cap_off_by_one(smpls, spec, max_samples, i, attempted, predictions) ==
    IF i > Len(smpls) \/ (max_samples.capped /\ attempted > max_samples.n)
    THEN Returned([attempted |-> attempted, predictions |-> predictions])
    ELSE EvalNext(smpls, spec, max_samples, i, attempted, predictions,
                  AfterRead(smpls[i], spec, imread(smpls[i].image_path)))

EvalLoop(smpls, spec, max_samples, i, attempted, predictions) ==
    IF i > Len(smpls) \/ (max_samples.capped /\ attempted >= max_samples.n)
    THEN Returned([attempted |-> attempted, predictions |-> predictions])
    ELSE EvalNext(smpls, spec, max_samples, i, attempted, predictions,
                  AfterRead(smpls[i], spec, imread(smpls[i].image_path)))

\* The aggregate with the metrics of an empty run reported as 0.0.
Aggregate_zero_metrics(attempted, predictions) ==
    LET successful == Len(predictions)
        failed == attempted - successful
        errors == [k \in 1..Len(predictions) |-> predictions[k].abs_error]
        squares == [k \in 1..Len(predictions) |-> RatMul(errors[k], errors[k])]
    IN  IF successful = 0
        THEN ClassicalBaselineResult(attempted, 0, failed, Zero, Sqrt(Zero), << >>)
        ELSE ClassicalBaselineResult(attempted, successful, failed,
                                     Mean(errors), Sqrt(Mean(squares)),
                                     predictions)

\* The result built after the loop: NaN metrics when nothing was detected,
\* else MAE and RMSE over the predictions.
Aggregate(attempted, predictions) ==
    LET successful == Len(predictions)
        failed == attempted - successful
        errors == [k \in 1..Len(predictions) |-> predictions[k].abs_error]
        squares == [k \in 1..Len(predictions) |-> RatMul(errors[k], errors[k])]
    IN  IF successful = 0
        THEN ClassicalBaselineResult(attempted, 0, failed, NaN, NaN, << >>)
        ELSE ClassicalBaselineResult(attempted, successful, failed,
                                     Mean(errors), Sqrt(Mean(squares)),
                                     predictions)

\* The function's result from its loop's outcome.
AfterLoop(loop) ==
    IF loop.status # "ok"
    THEN loop
    ELSE Returned(Aggregate(loop.value.attempted, loop.value.predictions))

evaluate_classical_baseline(smpls, spec, max_samples) ==
    AfterLoop(EvalLoop(smpls, spec, max_samples, 1, 0, << >>))

\* ---------------------------------------------------------- label ingestion
\* Image entries per annotations.xml.
MaxImages == 2

\* An <ellipse> and a <points> element of a CVAT export, by its attributes;
\* the points attribute "x,y" is kept as its two fields.
EllipseElement(label, cx, cy, rx, ry) == [label |-> label, cx |-> cx, cy |-> cy, rx |-> rx, ry |-> ry]
PointsElement(label, x, y) == [label |-> label, points |-> << x, y >>]

\* An <image> entry: its name attribute and its shapes in document order.
ImageEntry(name, ellipses, points) == [name |-> name, ellipses |-> ellipses, points |-> points]

\* The image entries the exports are made of: a fully labelled one, one
\* for each missing label, and one with repeated and foreign labels.
ImageEntries ==
    { ImageEntry("img_001.jpg",
                 << EllipseElement("temp_dial", 100, 200, 20, 10) >>,
                 << PointsElement("temp_center", 120, 130),
                    PointsElement("temp_tip", 150, 160) >>),
      ImageEntry("img_002.jpg",
                 << EllipseElement("temp_dial", 50, 50, 10, 10) >>,
                 << PointsElement("temp_center", 50, 50) >>),
      ImageEntry("img_003.jpg",
                 << EllipseElement("humidity_dial", 50, 50, 5, 8) >>,
                 << PointsElement("temp_tip", 40, 50),
                    PointsElement("temp_center", 50, 50) >>),
      ImageEntry("img_004.jpg",
                 << EllipseElement("temp_dial", 60, 40, 30, 30) >>,
                 << PointsElement("temp_tip", 60, 20) >>),
      ImageEntry("img_005.jpg",
                 << EllipseElement("temp_dial", 1, 1, 1, 1),
                    EllipseElement("humidity_dial", 9, 9, 2, 2),
                    EllipseElement("temp_dial", 10, 10, 4, 4) >>,
                 << PointsElement("temp_tip", 0, 0),
                    PointsElement("temp_center", 10, 10),
                    PointsElement("humidity_tip", 7, 7),
                    PointsElement("temp_tip", 11, 11) >>) }

\* annotations.xml: the image entries under the root, in document order.
Documents == UNION { [1..n -> ImageEntries] : n \in 0..MaxImages }

\* File names of the labelled directory, in sorted order.
FileOrder == << "batch_1.zip", "batch_2.zip", "notes.txt" >>
ZipFiles == { "batch_1.zip", "batch_2.zip" }
NoFiles == [name \in {} |-> << >>]

\* The labelled directories: one export, or two and a file that is no zip.
LabelledDirs ==
    { [name \in {"batch_2.zip"} |-> doc] : doc \in Documents }
    \cup { [name \in {"batch_1.zip", "batch_2.zip", "notes.txt"} |->
              IF name = "batch_2.zip" THEN doc
              ELSE IF name = "batch_1.zip" THEN first
              ELSE << >>]
           : doc \in Documents,
             first \in { d \in Documents :
                            /\ Len(d) <= 1
                            /\ \A k \in 1..Len(d) :
                                  d[k].name \in {"img_001.jpg", "img_002.jpg"} } }

\* sorted(labelled_dir.glob("*.zip"))
list_labelled_zips(dir) ==
    SelectSeq(FileOrder, LAMBDA name : name \in DOMAIN dir /\ name \in ZipFiles)

\* raw_dir / file_name
RawPath(file_name) == << "raw", file_name >>

\* A label placeholder: None, or the parsed label.
NoLabel == [present |-> FALSE]
Label(value) == [present |-> TRUE, value |-> value]

_parse_point(points_attr, label) ==
    Label(Point(points_attr.points[1], points_attr.points[2]))

_parse_ellipse(ellipse_attr, label) ==
    Label(EllipseLabel(ellipse_attr.cx, ellipse_attr.cy,
                       ellipse_attr.rx, ellipse_attr.ry))

\* The loops over img.findall(...): the last shape with the label is kept.
RECURSIVE LastEllipse(_, _, _, _)
LastEllipse(ellipses, label, i, found) ==
    IF i > Len(ellipses)
    THEN found
    ELSE LastEllipse(ellipses, label, i + 1,
                     IF ellipses[i].label = label
                     THEN _parse_ellipse(ellipses[i], label)
                     ELSE found)

RECURSIVE LastPoint(_, _, _, _)
LastPoint(points, label, i, found) ==
    IF i > Len(points)
    THEN found
    ELSE LastPoint(points, label, i + 1,
                   IF points[i].label = label
                   THEN _parse_point(points[i], label)
                   ELSE found)

\* ValueError(f"Missing labels in {zip_path} for image {file_name}")
MissingLabels(zip_path, file_name) ==
    [status |-> "ValueError", message |-> "Missing labels",
     zip_path |-> zip_path, file_name |-> file_name]

\* The completeness test that lets an entry without a tip through.
CompleteOr_tip_optional(zip_path, img, dial, center, tip) ==
    IF ~dial.present \/ ~center.present
    THEN MissingLabels(zip_path, img.name)
    ELSE Returned(Sample(RawPath(img.name), dial.value,
                         center.value.x, center.value.y,
                         IF tip.present THEN tip.value.x ELSE center.value.x,
                         IF tip.present THEN tip.value.y ELSE center.value.y))

\* The completeness test of one image entry, given its three placeholders.
CompleteOr(zip_path, img, dial, center, tip) ==
    IF ~dial.present \/ ~center.present \/ ~tip.present
    THEN MissingLabels(zip_path, img.name)
    ELSE Returned(Sample(RawPath(img.name), dial.value,
                         center.value.x, center.value.y,
                         tip.value.x, tip.value.y))

\* The body of the loop over the image entries.
ParseImage(zip_path, img) ==
    CompleteOr(zip_path, img,
               LastEllipse(img.ellipses, "temp_dial", 1, NoLabel),
               LastPoint(img.points, "temp_center", 1, NoLabel),
               LastPoint(img.points, "temp_tip", 1, NoLabel))

\* The loop of parse_cvat_zip from images[i] on: the exception leaves the
\* function, and the samples parsed so far with it.
RECURSIVE ParseLoop(_, _, _, _)
ParseNext(zip_path, images, i, smpls, parsed) ==
    IF parsed.status # "ok"
    THEN parsed
    ELSE ParseLoop(zip_path, images, i + 1, Append(smpls, parsed.value))

ParseLoop(zip_path, images, i, smpls) ==
    IF i > Len(images)
    THEN Returned(smpls)
    ELSE ParseNext(zip_path, images, i, smpls, ParseImage(zip_path, images[i]))

parse_cvat_zip(zip_path, dir) == ParseLoop(zip_path, dir[zip_path], 1, << >>)

\* The loop of load_dataset over the sorted archives.
RECURSIVE LoadLoop(_, _, _, _)
LoadNext(dir, zips, i, all_samples, parsed) ==
    IF parsed.status # "ok"
    THEN parsed
    ELSE LoadLoop(dir, zips, i + 1, all_samples \o parsed.value)

LoadLoop(dir, zips, i, all_samples) ==
    IF i > Len(zips)
    THEN Returned(all_samples)
    ELSE LoadNext(dir, zips, i, all_samples, parse_cvat_zip(zips[i], dir))

load_dataset(dir) == LoadLoop(dir, list_labelled_zips(dir), 1, << >>)

\* ------------------------------------------------------------ training run
\* Epochs a fit with EarlyStopping(patience=8) runs before it can stop.
Patience == 8

TrainingResult(model, history, label_summary, test_metrics, baseline_test_mae, dropped_out_of_sweep) ==
    [model |-> model, history |-> history, label_summary |-> label_summary,
     test_metrics |-> test_metrics, baseline_test_mae |-> baseline_test_mae,
     dropped_out_of_sweep |-> dropped_out_of_sweep]

\* A fully labelled image entry of an export.
LabelledImage(name, cx, cy, tx, ty) ==
    ImageEntry(name,
               << EllipseElement("temp_dial", cx, cy, 20, 20) >>,
               << PointsElement("temp_center", cx, cy),
                  PointsElement("temp_tip", tx, ty) >>)

\* The labelled directories of the training runs: no export; an export
\* with an unlabelled image; two images; three; three of which one points
\* out of the sweep of gauge_a; four of which one has its tip on its center.
TrainDirs ==
    { [name \in {"notes.txt"} |-> << >>],
      [name \in {"batch_1.zip"} |->
          << LabelledImage("a.jpg", 50, 50, 60, 50),
             ImageEntry("b.jpg", << >>, << >>) >>],
      [name \in {"batch_1.zip"} |->
          << LabelledImage("a.jpg", 50, 50, 60, 50),
             LabelledImage("b.jpg", 50, 50, 50, 60) >>],
      [name \in {"batch_1.zip", "batch_2.zip"} |->
          IF name = "batch_1.zip"
          THEN << LabelledImage("a.jpg", 50, 50, 60, 50),
                  LabelledImage("b.jpg", 50, 50, 50, 60) >>
          ELSE << LabelledImage("c.jpg", 50, 50, 40, 50) >>],
      [name \in {"batch_1.zip", "batch_2.zip"} |->
          IF name = "batch_1.zip"
          THEN << LabelledImage("a.jpg", 50, 50, 60, 50),
                  LabelledImage("b.jpg", 50, 50, 50, 40) >>
          ELSE << LabelledImage("c.jpg", 50, 50, 40, 50) >>],
      [name \in {"batch_1.zip", "batch_2.zip"} |->
          IF name = "batch_1.zip"
          THEN << LabelledImage("a.jpg", 50, 50, 60, 50),
                  LabelledImage("b.jpg", 50, 50, 50, 60) >>
          ELSE << LabelledImage("c.jpg", 50, 50, 50, 50),
                  LabelledImage("d.jpg", 50, 50, 60, 60) >>] }

\* The calibration files of the training runs.
TrainTomls ==
    { [g \in {"gauge_a"} |-> TomlEntry(0, 180, 0, 100)],
      [g \in {"gauge_a"} |-> TomlEntry(0, 0, 0, 100)],
      [g \in {"gauge_a", "gauge_b"} |->
          IF g = "gauge_a" THEN TomlEntry(0, 180, 0, 100)
          ELSE TomlEntry(45, 270, -20, 40)] }

\* The configs of the training runs: those that differ in what the checks
\* before the training look at, and those that differ in how the model is
\* trained.
TrainRunConfigs ==
    { [DefaultConfig EXCEPT !.gauge_id = g, !.val_fraction = f[1],
                            !.test_fraction = f[2],
                            !.mobilenet_warmup_epochs = w, !.device = d,
                            !.epochs = 1]
        : g \in {"gauge_a", "gauge_b", "gauge_c"},
          f \in { << Rat(15, 100), Rat(15, 100) >>, << Zero, Rat(15, 100) >>,
                  << Rat(1, 2), Rat(1, 5) >> },
          w \in {-1, 0, 8}, d \in {"auto", "gpu"} }
    \cup
    { [DefaultConfig EXCEPT !.model_family = m, !.mobilenet_pretrained = p,
                            !.mobilenet_backbone_trainable = t,
                            !.mobilenet_warmup_epochs = w, !.epochs = n]
        : m \in {"compact", "mobilenet_v2", "resnet"}, p \in BOOLEAN,
          t \in BOOLEAN, w \in {0, 1, 8}, n \in {1, 3, 10} }

\* _configure_training_runtime: device = "gpu" without a GPU is an error;
\* the policy and memory settings are not followed.
_configure_training_runtime(cfg, gpus) ==
    IF cfg.device = "gpu" /\ ~gpus
    THEN ValueError("device='gpu' was requested, but TensorFlow did not detect a GPU.")
    ELSE Returned("None")

\* ValueError(f"Unknown gauge_id '{config.gauge_id}'. Available: {list(specs)}")
UnknownGaugeId(gauge_id, table) ==
    [status |-> "ValueError", message |-> "Unknown gauge_id",
     gauge_id |-> gauge_id, available |-> DOMAIN table]

\* The lookup that falls back to the first gauge of the table.
SelectSpec_with_default(cfg, table) ==
    IF cfg.gauge_id \notin DOMAIN table
    THEN Returned(table["gauge_a"])
    ELSE Returned(table[cfg.gauge_id])

\* The lookup of the run's gauge in the loaded table.
SelectSpec(cfg, table) ==
    IF cfg.gauge_id \notin DOMAIN table
    THEN UnknownGaugeId(cfg.gauge_id, table)
    ELSE Returned(table[cfg.gauge_id])

\* _build_tf_dataset: what the pipeline is built from (augment_training
\* and batch_size at their defaults).
_build_tf_dataset(examples, cfg, training) ==
    [examples |-> examples, shuffle_seed |-> IF training THEN cfg.seed ELSE -1,
     augment |-> training, batch_size |-> 8]

\* The models: the compact one has no backbone handle; the MobileNetV2
\* one stores its backbone, trainable as asked.
NoBackbone == [present |-> FALSE]
Backbone(pretrained, trainable) == [present |-> TRUE, pretrained |-> pretrained, trainable |-> trainable]
NotCompiled == [done |-> FALSE]
Model(family, backbone) == [family |-> family, backbone |-> backbone, compiled |-> NotCompiled]

build_regression_model == Model("compact", NoBackbone)
build_mobilenetv2_regression_model(pretrained, backbone_trainable) ==
    Model("mobilenet_v2", Backbone(pretrained, backbone_trainable))

\* The model family branch of train.
BuildModel(cfg) ==
    IF cfg.model_family = "compact"
    THEN Returned(build_regression_model)
    ELSE IF cfg.model_family = "mobilenet_v2"
    THEN Returned(build_mobilenetv2_regression_model(
                      cfg.mobilenet_pretrained, cfg.mobilenet_backbone_trainable))
    ELSE ValueError("Unsupported model_family")

\* backbone.trainable = value
SetTrainable(model, value) ==
    [model EXCEPT !.backbone = [@ EXCEPT !.trainable = value]]

\* _compile_regression_model: the compiled training step is built from the
\* trainable flags the layers have at that moment.
_compile_regression_model(model) ==
    [model EXCEPT !.compiled = [done |-> TRUE, backbone |-> model.backbone]]

should_use_two_stage_mobilenet_any_epochs(cfg) ==
    /\ cfg.model_family = "mobilenet_v2"
    /\ cfg.mobilenet_pretrained
    /\ cfg.mobilenet_backbone_trainable
    /\ cfg.mobilenet_warmup_epochs > 0

should_use_two_stage_mobilenet(cfg) ==
    /\ cfg.model_family = "mobilenet_v2"
    /\ cfg.mobilenet_pretrained
    /\ cfg.mobilenet_backbone_trainable
    /\ cfg.mobilenet_warmup_epochs > 0
    /\ cfg.epochs > 1

\* warmup_epochs = min(config.mobilenet_warmup_epochs, config.epochs - 1)
WarmupEpochsOf(cfg) ==
    IF cfg.mobilenet_warmup_epochs < cfg.epochs - 1
    THEN cfg.mobilenet_warmup_epochs
    ELSE cfg.epochs - 1

\* model.fit(epochs=..., initial_epoch=..., callbacks=...) about to run
\* epoch initial_epoch; ran is what each finished epoch trained with.
Fit(stage, epochs, initial_epoch, callbacks) ==
    [stage |-> stage, epochs |-> epochs, initial_epoch |-> initial_epoch,
     callbacks |-> callbacks, epoch |-> initial_epoch, ran |-> << >>]
NoFit == [stage |-> "none"]

\* _make_training_callbacks
_make_training_callbacks == {"EarlyStopping", "ReduceLROnPlateau"}

\* _merge_histories: the epochs of the first fit, then those of the second.
_merge_histories(first, second) == first \o second
HistoryOf(fit) == [k \in 1..Len(fit.ran) |-> fit.ran[k].epoch]

\* _compute_mean_baseline_mae
_compute_mean_baseline_mae(train_examples, test_examples) ==
    LET train_values == [k \in 1..Len(train_examples) |-> train_examples[k].value]
        mean_pred == Mean(train_values)
    IN  Mean([k \in 1..Len(test_examples) |->
                 RatAbs(RatSub(test_examples[k].value, mean_pred))])

\* The locals of a call of train before its first statement.
Unset == [set |-> FALSE]
StartOfTrain(gpus) ==
    [pc |-> "start", gpus |-> gpus, log |-> << >>, spec |-> Unset,
     label_summary |-> Unset, examples |-> << >>, dropped |-> 0,
     split |-> Unset, datasets |-> Unset, model |-> Unset, fit |-> NoFit,
     fits |-> << >>]

\* A statement of train has run: it is logged and train moves on.
Step(r, name, pc) == [r EXCEPT !.log = Append(@, name), !.pc = pc]

\* ---------------------------------------------------------- training script
\* scripts/run_training.py: how many runs of the script there are, and how
\* far the wall clock advances while they run.
MaxRuns == 2
MaxClock == 2

ScriptRuns == 1..MaxRuns

\* datetime.now() has a finer resolution than the second strftime prints.
TicksPerSecond == 2

TwoDigits(n) == IF n < 10 THEN "0" \o ToString(n) ELSE ToString(n)

\* datetime.now().strftime("%Y%m%d_%H%M%S"), the clock starting at midnight
\* of some day: the fraction of the second is dropped.
strftime(now) == "20260101_0000" \o TwoDigits(now \div TicksPerSecond)

\* parse_args: the arguments that matter to the run folder. --run-name
\* defaults to "", and any string can be given, a timestamp among them.
RunNameArgs == {"", "exp_a", "20260101_000000"}
ArtifactsDirArgs == {"artifacts/training", "artifacts/other"}
parse_args == [run_name : RunNameArgs, artifacts_dir : ArtifactsDirArgs]

\* pathlib: parent / name.
Path(parent, name) == [parent |-> parent, name |-> name]

\* run_name = args.run_name or datetime.now().strftime(...): the empty
\* string is falsy.
RunNameOf(args, now) == IF args.run_name # "" THEN args.run_name ELSE strftime(now)
RunDirOf(args, now) == Path(args.artifacts_dir, RunNameOf(args, now))

\* The file system: the directories that exist and the files, one content
\* per path.
EmptyDisk == [dirs |-> {}, files |-> {}]

\* Path.mkdir(parents=True, exist_ok=True): an existing directory is no error.
mkdir(d, path) == [d EXCEPT !.dirs = @ \cup {path}]

\* model.save(path) / Path.write_text(text): the file is created, or
\* truncated and rewritten when it exists.
write_text(d, path, content) == [d EXCEPT !.files = {f \in @ : f.path # path} \cup {[path |-> path, content |-> content]}]

\* What a run writes: its own model, history and metrics.
Artifact(kind, p) == [kind |-> kind, run |-> p]

\* train(config) returns a TrainingResult or raises (SpecTrain).
TrainOutcomes == {"returned", "raised"}

NotStarted == [pc |-> "not_started"]
NoScripts == [p \in ScriptRuns |-> NotStarted]

\* ---------------------------------------------------------------- the calls
NotLoaded == [loaded |-> FALSE]
NoResult == [op |-> "none"]
NoScene == [given |-> FALSE]
NoRun == [pc |-> "none"]

Init ==
    /\ toml \in TomlFiles
    /\ specs = NotLoaded
    /\ samples \in SampleLists
    /\ config = DefaultConfig
    /\ result = NoResult
    /\ rngKey = 0
    /\ npGlobalState = 21
    /\ firstSplit = NoResult
    /\ scene = NoScene
    /\ labelled = NoFiles
    /\ run = NoRun
    /\ clock = 0
    /\ disk = EmptyDisk
    /\ script = NoScripts

\* The calibration table is read once, at process start.
LoadGaugeSpecs ==
    /\ ~specs.loaded
    /\ specs' = [loaded |-> TRUE, table |-> load_gauge_specs(toml)]
    /\ UNCHANGED <<toml, samples, result, splitVars, detectVars, ingestVars, scriptVars, trainVars>>

NeedleFraction ==
    /\ specs.loaded
    /\ \E i \in 1..Len(samples), g \in DOMAIN specs.table, strict \in BOOLEAN :
          result' = [op |-> "needle_fraction", sample |-> samples[i],
                     spec |-> specs.table[g], strict |-> strict,
                     out |-> needle_fraction(samples[i], specs.table[g], strict)]
    /\ UNCHANGED <<gaugeVars, splitVars, detectVars, ingestVars, scriptVars, trainVars>>

NeedleValue ==
    /\ specs.loaded
    /\ \E i \in 1..Len(samples), g \in DOMAIN specs.table, strict \in BOOLEAN :
          result' = [op |-> "needle_value", sample |-> samples[i],
                     spec |-> specs.table[g], strict |-> strict,
                     out |-> needle_value(samples[i], specs.table[g], strict)]
    /\ UNCHANGED <<gaugeVars, splitVars, detectVars, ingestVars, scriptVars, trainVars>>

SummarizeLabelSweep ==
    /\ specs.loaded
    /\ \E g \in DOMAIN specs.table :
          result' = [op |-> "summarize_label_sweep", spec |-> specs.table[g],
                     out |-> summarize_label_sweep(samples, specs.table[g])]
    /\ UNCHANGED <<gaugeVars, splitVars, detectVars, ingestVars, scriptVars, trainVars>>

Next ==
    \/ LoadGaugeSpecs
    \/ NeedleFraction
    \/ NeedleValue
    \/ SummarizeLabelSweep

Spec == Init /\ [][Next]_vars

\* ------------------------------------------------- the example-builder calls
\* A build run: the calibration table is loaded and one call is made on the
\* run's samples (the calls are pure, so one call shows all a call can do).
ComputeCropBox ==
    /\ result = NoResult
    /\ \E i \in 1..Len(samples), pad_ratio \in PadRatios :
          result' = [op |-> "_compute_crop_box", sample |-> samples[i],
                     pad_ratio |-> pad_ratio,
                     out |-> Returned(_compute_crop_box(samples[i], pad_ratio))]
    /\ UNCHANGED <<gaugeVars, splitVars, detectVars, ingestVars, scriptVars, trainVars>>

BuildTrainingExamples ==
    /\ specs.loaded
    /\ result = NoResult
    /\ \E g \in DOMAIN specs.table, strict_labels \in BOOLEAN,
          crop_pad_ratio \in PadRatios :
          result' = [op |-> "_build_training_examples", spec |-> specs.table[g],
                     strict_labels |-> strict_labels,
                     crop_pad_ratio |-> crop_pad_ratio,
                     out |-> _build_training_examples(samples, specs.table[g],
                                                      strict_labels,
                                                      crop_pad_ratio)]
    /\ UNCHANGED <<gaugeVars, splitVars, detectVars, ingestVars, scriptVars, trainVars>>

NextBuild ==
    \/ LoadGaugeSpecs
    \/ ComputeCropBox
    \/ BuildTrainingExamples

SpecBuild == Init /\ [][NextBuild]_vars

\* ------------------------------------------------------ the evaluation calls
\* A baseline run: the calibration table is loaded and the run's samples
\* are evaluated once.
EvaluateClassicalBaseline ==
    /\ specs.loaded
    /\ result = NoResult
    /\ \E g \in DOMAIN specs.table, max_samples \in Caps :
          result' = [op |-> "evaluate_classical_baseline",
                     spec |-> specs.table[g], max_samples |-> max_samples,
                     out |-> evaluate_classical_baseline(samples, specs.table[g],
                                                         max_samples)]
    /\ UNCHANGED <<gaugeVars, splitVars, detectVars, ingestVars, scriptVars, trainVars>>

NextEval ==
    \/ LoadGaugeSpecs
    \/ EvaluateClassicalBaseline

SpecEval == Init /\ [][NextEval]_vars

\* ------------------------------------------------------- the detector calls
InitDetect ==
    /\ toml = [g \in {"gauge_a"} |-> TomlEntry(0, 180, 0, 100)]
    /\ specs = NotLoaded
    /\ samples = <<>>
    /\ config = DefaultConfig
    /\ result = NoResult
    /\ rngKey = 0
    /\ npGlobalState = 21
    /\ firstSplit = NoResult
    /\ scene \in Scenes
    /\ labelled = NoFiles
    /\ run = NoRun
    /\ clock = 0
    /\ disk = EmptyDisk
    /\ script = NoScripts

DetectNeedleUnitVector ==
    /\ scene.given
    /\ result' = [op |-> "detect_needle_unit_vector",
                  out |-> detect_needle_unit_vector(scene.image_bgr,
                                                    scene.center_xy,
                                                    scene.dial_radius_px)]
    /\ UNCHANGED <<gaugeVars, splitVars, detectVars, ingestVars, scriptVars, trainVars>>

NextDetect ==
    \/ DetectNeedleUnitVector

SpecDetect == InitDetect /\ [][NextDetect]_vars

\* ------------------------------------------------------- the ingestion calls
InitIngest ==
    /\ toml = [g \in {"gauge_a"} |-> TomlEntry(0, 180, 0, 100)]
    /\ specs = NotLoaded
    /\ samples = <<>>
    /\ config = DefaultConfig
    /\ result = NoResult
    /\ rngKey = 0
    /\ npGlobalState = 21
    /\ firstSplit = NoResult
    /\ scene = NoScene
    /\ labelled \in LabelledDirs
    /\ run = NoRun
    /\ clock = 0
    /\ disk = EmptyDisk
    /\ script = NoScripts

ParseCvatZip ==
    /\ result = NoResult
    /\ \E zip_path \in DOMAIN labelled \cap ZipFiles :
          result' = [op |-> "parse_cvat_zip", zip_path |-> zip_path,
                     out |-> parse_cvat_zip(zip_path, labelled)]
    /\ UNCHANGED <<gaugeVars, splitVars, detectVars, ingestVars, scriptVars, trainVars>>

LoadDataset ==
    /\ result = NoResult
    /\ result' = [op |-> "load_dataset", out |-> load_dataset(labelled)]
    /\ UNCHANGED <<gaugeVars, splitVars, detectVars, ingestVars, scriptVars, trainVars>>

NextIngest ==
    \/ ParseCvatZip
    \/ LoadDataset

SpecIngest == InitIngest /\ [][NextIngest]_vars

\* ------------------------------------------------------------ the train call
\* train(config) is called in a process with or without a GPU; numpy's
\* global generator is in some other state than the run's seed.
InitTrain ==
    /\ toml \in TrainTomls
    /\ specs = NotLoaded
    /\ samples = <<>>
    /\ config \in TrainRunConfigs
    /\ result = NoResult
    /\ rngKey = 0
    /\ npGlobalState = 123
    /\ firstSplit = NoResult
    /\ scene = NoScene
    /\ labelled \in TrainDirs
    /\ \E gpus \in BOOLEAN : run = StartOfTrain(gpus)
    /\ clock = 0
    /\ disk = EmptyDisk
    /\ script = NoScripts

\* An exception leaves train: nothing after the raising statement runs.
TrainRaises(r, name, out) ==
    /\ run' = Step(r, name, "raised")
    /\ result' = [op |-> "train", out |-> out]

TrainValidateConfig ==
    /\ run.pc = "start"
    /\ LET out == _validate_split_config(config)
       IN  IF out.status # "ok"
           THEN TrainRaises(run, "_validate_split_config", out)
           ELSE /\ run' = Step(run, "_validate_split_config", "configure_runtime")
                /\ UNCHANGED result
    /\ UNCHANGED <<gaugeVars, splitVars, detectVars, ingestVars, scriptVars>>

TrainConfigureRuntime ==
    /\ run.pc = "configure_runtime"
    /\ LET out == _configure_training_runtime(config, run.gpus)
       IN  IF out.status # "ok"
           THEN TrainRaises(run, "_configure_training_runtime", out)
           ELSE /\ run' = Step(run, "_configure_training_runtime", "seed")
                /\ UNCHANGED result
    /\ UNCHANGED <<gaugeVars, splitVars, detectVars, ingestVars, scriptVars>>

\* keras.utils.set_random_seed(config.seed); np.random.seed(config.seed)
TrainSetSeeds ==
    /\ run.pc = "seed"
    /\ npGlobalState' = config.seed
    /\ run' = Step(run, "np.random.seed", "load_gauge_specs")
    /\ UNCHANGED <<gaugeVars, detectVars, ingestVars, scriptVars, config, result, rngKey, firstSplit>>

\* specs = load_gauge_specs(), and the lookup of config.gauge_id.
TrainLoadGaugeSpecs ==
    /\ run.pc = "load_gauge_specs"
    /\ specs' = [loaded |-> TRUE, table |-> load_gauge_specs(toml)]
    /\ LET out == SelectSpec(config, load_gauge_specs(toml))
       IN  IF out.status # "ok"
           THEN TrainRaises(run, "load_gauge_specs", out)
           ELSE /\ run' = [Step(run, "load_gauge_specs", "load_dataset")
                              EXCEPT !.spec = out.value]
                /\ UNCHANGED result
    /\ UNCHANGED <<toml, samples, splitVars, detectVars, ingestVars, scriptVars>>

\* train going on with an empty dataset.
TrainLoadDataset_allows_empty ==
    /\ run.pc = "load_dataset"
    /\ LET out == load_dataset(labelled)
       IN  IF out.status # "ok"
           THEN /\ TrainRaises(run, "load_dataset", out)
                /\ UNCHANGED samples
           ELSE /\ run' = Step(run, "load_dataset", "summarize_label_sweep")
                /\ samples' = out.value
                /\ UNCHANGED result
    /\ UNCHANGED <<toml, specs, splitVars, detectVars, ingestVars, scriptVars>>

\* samples = load_dataset(...), and the test for an empty dataset.
TrainLoadDataset ==
    /\ run.pc = "load_dataset"
    /\ LET out == load_dataset(labelled)
       IN  IF out.status # "ok"
           THEN /\ TrainRaises(run, "load_dataset", out)
                /\ UNCHANGED samples
           ELSE IF out.value = << >>
           THEN /\ TrainRaises(run, "load_dataset", ValueError("No samples found."))
                /\ samples' = out.value
           ELSE /\ run' = Step(run, "load_dataset", "summarize_label_sweep")
                /\ samples' = out.value
                /\ UNCHANGED result
    /\ UNCHANGED <<toml, specs, splitVars, detectVars, ingestVars, scriptVars>>

TrainSummarizeLabels ==
    /\ run.pc = "summarize_label_sweep"
    /\ LET out == summarize_label_sweep(samples, run.spec)
       IN  IF out.status # "ok"
           THEN TrainRaises(run, "summarize_label_sweep", out)
           ELSE /\ run' = [Step(run, "summarize_label_sweep", "build_examples")
                              EXCEPT !.label_summary = out.value]
                /\ UNCHANGED result
    /\ UNCHANGED <<gaugeVars, splitVars, detectVars, ingestVars, scriptVars>>

\* _build_training_examples, and the test for fewer than 3 examples.
TrainBuildExamples ==
    /\ run.pc = "build_examples"
    /\ LET out == _build_training_examples(samples, run.spec, config.strict_labels,
                                           config.crop_pad_ratio)
       IN  IF out.status # "ok"
           THEN TrainRaises(run, "_build_training_examples", out)
           ELSE IF Len(out.value.examples) < 3
           THEN TrainRaises(run, "_build_training_examples",
                            ValueError("Not enough valid examples after filtering invalid sweep labels."))
           ELSE /\ run' = [Step(run, "_build_training_examples", "split")
                              EXCEPT !.examples = out.value.examples,
                                     !.dropped = out.value.dropped]
                /\ UNCHANGED result
    /\ UNCHANGED <<gaugeVars, splitVars, detectVars, ingestVars, scriptVars>>

TrainSplitExamples ==
    /\ run.pc = "split"
    /\ LET out == _split_examples(run.examples, config)
       IN  IF out.status # "ok"
           THEN TrainRaises(run, "_split_examples", out)
           ELSE /\ run' = [Step(run, "_split_examples", "build_datasets")
                              EXCEPT !.split = out.value]
                /\ UNCHANGED result
    /\ UNCHANGED <<gaugeVars, splitVars, detectVars, ingestVars, scriptVars>>

\* train_ds, val_ds, test_ds
TrainBuildDatasets ==
    /\ run.pc = "build_datasets"
    /\ run' = [Step(run, "_build_tf_dataset", "build_model")
                  EXCEPT !.datasets =
                     [train_ds |-> _build_tf_dataset(run.split.train_examples, config, TRUE),
                      val_ds |-> _build_tf_dataset(run.split.val_examples, config, FALSE),
                      test_ds |-> _build_tf_dataset(run.split.test_examples, config, FALSE)]]
    /\ UNCHANGED <<gaugeVars, splitVars, detectVars, ingestVars, scriptVars, result>>

\* The model is built, and the training schedule is chosen.
TrainBuildModel ==
    /\ run.pc = "build_model"
    /\ LET out == BuildModel(config)
       IN  IF out.status # "ok"
           THEN TrainRaises(run, "build_model", out)
           ELSE /\ run' = [Step(run, "build_model",
                                IF should_use_two_stage_mobilenet(config)
                                THEN "warmup" ELSE "single")
                              EXCEPT !.model = out.value]
                /\ UNCHANGED result
    /\ UNCHANGED <<gaugeVars, splitVars, detectVars, ingestVars, scriptVars>>

\* Stage 1: the backbone is frozen, the model compiled, the warmup fit
\* started without callbacks.
TrainStartWarmup ==
    /\ run.pc = "warmup"
    /\ run' = [Step(run, "fit", "fit")
                  EXCEPT !.model = _compile_regression_model(SetTrainable(run.model, FALSE)),
                         !.fit = Fit("warmup", WarmupEpochsOf(config), 0, {})]
    /\ UNCHANGED <<gaugeVars, splitVars, detectVars, ingestVars, scriptVars, result>>

\* Stage 2: the backbone is unfrozen, the model compiled again, the
\* fine-tune fit started at the epoch the warmup ended with.
TrainStartFineTune ==
    /\ run.pc = "fine_tune"
    /\ run' = [Step(run, "fit", "fit")
                  EXCEPT !.model = _compile_regression_model(SetTrainable(run.model, TRUE)),
                         !.fit = Fit("fine_tune", config.epochs,
                                     WarmupEpochsOf(config), _make_training_callbacks)]
    /\ UNCHANGED <<gaugeVars, splitVars, detectVars, ingestVars, scriptVars, result>>

\* The single fit of every other run.
TrainStartSingleFit ==
    /\ run.pc = "single"
    /\ run' = [Step(run, "fit", "fit")
                  EXCEPT !.model = _compile_regression_model(run.model),
                         !.fit = Fit("single", config.epochs, 0,
                                     _make_training_callbacks)]
    /\ UNCHANGED <<gaugeVars, splitVars, detectVars, ingestVars, scriptVars, result>>

\* One epoch of the running fit, trained as the model was compiled.
TrainFitEpoch ==
    /\ run.pc = "fit"
    /\ run.fit.epoch < run.fit.epochs
    /\ run' = [run EXCEPT !.fit.ran = Append(@, [epoch |-> run.fit.epoch,
                                                 backbone |-> run.model.compiled.backbone]),
                          !.fit.epoch = @ + 1]
    /\ UNCHANGED <<gaugeVars, splitVars, detectVars, ingestVars, scriptVars, result>>

\* The fit is over: after its last epoch, or earlier when EarlyStopping
\* has run out of patience.
FitIsOver ==
    \/ run.fit.epoch >= run.fit.epochs
    \/ /\ "EarlyStopping" \in run.fit.callbacks
       /\ Len(run.fit.ran) >= Patience

TrainEndFit ==
    /\ run.pc = "fit"
    /\ FitIsOver
    /\ run' = [run EXCEPT !.fits = Append(@, run.fit), !.fit = NoFit,
                          !.pc = IF run.fit.stage = "warmup"
                                 THEN "fine_tune" ELSE "evaluate"]
    /\ UNCHANGED <<gaugeVars, splitVars, detectVars, ingestVars, scriptVars, result>>

\* model.evaluate, the mean-predictor baseline, and the TrainingResult.
TrainEvaluate ==
    /\ run.pc = "evaluate"
    /\ LET baseline_test_mae ==
               _compute_mean_baseline_mae(run.split.train_examples,
                                          run.split.test_examples)
           history == IF Len(run.fits) = 2
                      THEN _merge_histories(HistoryOf(run.fits[1]), HistoryOf(run.fits[2]))
                      ELSE HistoryOf(run.fits[1])
       IN  /\ run' = Step(run, "evaluate", "returned")
           /\ result' = [op |-> "train",
                         out |-> Returned(TrainingResult(
                                     run.model, history, run.label_summary,
                                     [keys |-> {"loss", "mae", "rmse",
                                                "baseline_mae_mean_predictor"},
                                      baseline_mae_mean_predictor |-> baseline_test_mae],
                                     baseline_test_mae, run.dropped))]
    /\ UNCHANGED <<gaugeVars, splitVars, detectVars, ingestVars, scriptVars>>

NextTrain ==
    \/ TrainValidateConfig
    \/ TrainConfigureRuntime
    \/ TrainSetSeeds
    \/ TrainLoadGaugeSpecs
    \/ TrainLoadDataset
    \/ TrainSummarizeLabels
    \/ TrainBuildExamples
    \/ TrainSplitExamples
    \/ TrainBuildDatasets
    \/ TrainBuildModel
    \/ TrainStartWarmup
    \/ TrainStartFineTune
    \/ TrainStartSingleFit
    \/ TrainFitEpoch
    \/ TrainEndFit
    \/ TrainEvaluate

SpecTrain == InitTrain /\ [][NextTrain]_vars

\* ------------------------------------------------------ the training script
\* Runs of scripts/run_training.py, one after the other or at the same time,
\* on one file system.
InitScript ==
    /\ toml = [g \in {"gauge_a"} |-> TomlEntry(0, 180, 0, 100)]
    /\ specs = NotLoaded
    /\ samples = <<>>
    /\ config = DefaultConfig
    /\ result = NoResult
    /\ rngKey = 0
    /\ npGlobalState = 21
    /\ firstSplit = NoResult
    /\ scene = NoScene
    /\ labelled = NoFiles
    /\ run = NoRun
    /\ clock = 0
    /\ disk = EmptyDisk
    /\ script = NoScripts

\* The wall clock advances.
Tick ==
    /\ clock < MaxClock
    /\ clock' = clock + 1
    /\ UNCHANGED <<gaugeVars, splitVars, detectVars, ingestVars, trainVars, result, disk, script>>

\* main, up to the call of train: the run folder is named and made.
ScriptMakeRunDir(p) ==
    /\ script[p].pc = "not_started"
    /\ \E args \in parse_args :
          LET run_dir == RunDirOf(args, clock)
          IN  /\ disk' = mkdir(disk, run_dir)
              /\ script' = [script EXCEPT ![p] = [pc |-> "train", args |-> args, run_dir |-> run_dir]]
    /\ UNCHANGED <<gaugeVars, splitVars, detectVars, ingestVars, trainVars, result, clock>>

\* result = train(config): an exception ends the script.
ScriptTrain(p) ==
    /\ script[p].pc = "train"
    /\ \E outcome \in TrainOutcomes :
          script' = [script EXCEPT ![p].pc = IF outcome = "returned" THEN "save_model" ELSE "raised"]
    /\ UNCHANGED <<gaugeVars, splitVars, detectVars, ingestVars, trainVars, result, clock, disk>>

\* result.model.save(run_dir / "model.keras")
ScriptSaveModel(p) ==
    /\ script[p].pc = "save_model"
    /\ disk' = write_text(disk, Path(script[p].run_dir, "model.keras"), Artifact("model", p))
    /\ script' = [script EXCEPT ![p].pc = "write_history"]
    /\ UNCHANGED <<gaugeVars, splitVars, detectVars, ingestVars, trainVars, result, clock>>

\* history_path.write_text(...)
ScriptWriteHistory(p) ==
    /\ script[p].pc = "write_history"
    /\ disk' = write_text(disk, Path(script[p].run_dir, "history.json"), Artifact("history", p))
    /\ script' = [script EXCEPT ![p].pc = "write_metrics"]
    /\ UNCHANGED <<gaugeVars, splitVars, detectVars, ingestVars, trainVars, result, clock>>

\* metrics_path.write_text(...), the summary is printed and main returns.
ScriptWriteMetrics(p) ==
    /\ script[p].pc = "write_metrics"
    /\ disk' = write_text(disk, Path(script[p].run_dir, "metrics.json"), Artifact("metrics", p))
    /\ script' = [script EXCEPT ![p].pc = "done"]
    /\ UNCHANGED <<gaugeVars, splitVars, detectVars, ingestVars, trainVars, result, clock>>

NextScript ==
    \/ Tick
    \/ \E p \in ScriptRuns : ScriptMakeRunDir(p)
    \/ \E p \in ScriptRuns : ScriptTrain(p)
    \/ \E p \in ScriptRuns : ScriptSaveModel(p)
    \/ \E p \in ScriptRuns : ScriptWriteHistory(p)
    \/ \E p \in ScriptRuns : ScriptWriteMetrics(p)

SpecScript == InitScript /\ [][NextScript]_vars

\* ------------------------------------------------------ the splitting calls
InitSplit ==
    /\ toml = [g \in {"gauge_a"} |-> TomlEntry(0, 180, 0, 100)]
    /\ specs = NotLoaded
    /\ samples = <<>>
    /\ config \in TrainConfigs
    /\ result = NoResult
    /\ rngKey \in 0..MaxRngKey
    /\ npGlobalState \in Seeds
    /\ firstSplit = NoResult
    /\ scene = NoScene
    /\ labelled = NoFiles
    /\ run = NoRun
    /\ clock = 0
    /\ disk = EmptyDisk
    /\ script = NoScripts

\* np.random.seed(seed): the global generator restarts from the seed.
SetRandomSeed ==
    /\ \E seed \in Seeds : npGlobalState' = seed
    /\ firstSplit' = IF firstSplit.op = "none"
                     THEN firstSplit
                     ELSE [firstSplit EXCEPT !.others = TRUE]
    /\ UNCHANGED <<gaugeVars, detectVars, ingestVars, scriptVars, trainVars, config, result, rngKey>>

ValidateSplitConfig ==
    /\ result' = [op |-> "_validate_split_config",
                  out |-> _validate_split_config(config)]
    /\ firstSplit' = IF firstSplit.op = "none"
                     THEN firstSplit
                     ELSE [firstSplit EXCEPT !.others = TRUE]
    /\ UNCHANGED <<gaugeVars, detectVars, ingestVars, scriptVars, trainVars, config, rngKey, npGlobalState>>

\* A call of _split_examples with the run's config.  firstSplit keeps the
\* first call of the run, and whether any other call followed it.
SplitExamples ==
    /\ \E n \in 2..MaxExamples :
          LET call == [op |-> "_split_examples", examples |-> ExampleList(n),
                       out |-> _split_examples(ExampleList(n), config)]
          IN  /\ result' = call
              /\ firstSplit' =
                    IF firstSplit.op = "none"
                    THEN [op |-> "_split_examples", examples |-> call.examples,
                          out |-> call.out, others |-> FALSE]
                    ELSE IF firstSplit.examples = call.examples
                    THEN firstSplit
                    ELSE [firstSplit EXCEPT !.others = TRUE]
    /\ UNCHANGED <<gaugeVars, detectVars, ingestVars, scriptVars, trainVars, config, rngKey, npGlobalState>>

NextSplit ==
    \/ SetRandomSeed
    \/ ValidateSplitConfig
    \/ SplitExamples

SpecSplit == InitSplit /\ [][NextSplit]_vars

\* ======================================================================
\* Calibration and auditor claims (specification Spec)
\* ======================================================================

\* shifted / sweep_rad > 1.0 as the floats decide it (x / 0.0 is never a
\* number above 1.0 that the function could return).
FractionAboveOne(shifted, sweep) ==
    sweep # 0 /\ RatLT(One, Rat(shifted, sweep))

\* C5: in strict mode needle_fraction raises the out-of-sweep error exactly
\* when shifted / sweep_rad > 1.0, and otherwise returns shifted / sweep_rad
\* unchanged.
C5_StrictRaisesExactlyAboveOne ==
    (result.op = "needle_fraction" /\ result.strict) =>
        LET shifted == Shifted(result.sample, result.spec)
            sweep == result.spec.sweep_rad
        IN  IF FractionAboveOne(shifted, sweep)
            THEN result.out.status = "ValueError"
            ELSE /\ sweep # 0
                 /\ result.out = Returned(Rat(shifted, sweep))

\* C6: in non-strict mode needle_fraction never fails, its result lies in
\* [0, 1], and it is 1.0 on every sample on which strict mode raises.
C6_NonStrictClampsToUnitInterval ==
    (result.op = "needle_fraction" /\ ~result.strict) =>
        /\ result.out.status = "ok"
        /\ RatLE(Zero, result.out.value)
        /\ RatLE(result.out.value, One)
        /\ needle_fraction(result.sample, result.spec, TRUE).status # "ok"
              => result.out.value = One

\* C7: needle_value fails exactly as needle_fraction does under the same
\* flag, and otherwise returns min_value + fraction * (max_value - min_value):
\* min_value at the start of the sweep, the midpoint of the range at half
\* sweep, max_value at the end of the sweep.
C7_NeedleValueIsLinear ==
    result.op = "needle_value" =>
        LET f == needle_fraction(result.sample, result.spec, result.strict)
            lo == result.spec.min_value
            hi == result.spec.max_value
            shifted == Shifted(result.sample, result.spec)
            sweep == result.spec.sweep_rad
            v == result.out.value
        IN  /\ result.out.status = f.status
            /\ f.status = "ok" =>
                  /\ v.num * f.value.den
                       = v.den * (lo * f.value.den + f.value.num * (hi - lo))
                  /\ shifted = 0 => v = FromInt(lo)
                  /\ 2 * shifted = sweep => v = Rat(lo + hi, 2)
                  /\ shifted = sweep => v = FromInt(hi)

\* C7 witness: a needle at half sweep of a gauge whose range does not start
\* at zero has been converted.
C7_Witness ==
    /\ result.op = "needle_value"
    /\ result.out.status = "ok"
    /\ 2 * Shifted(result.sample, result.spec) = result.spec.sweep_rad
    /\ result.spec.min_value # 0
    /\ result.out.value = FromInt(10)

\* C8: every GaugeSpec produced by load_gauge_specs has sweep_rad > 0.
C8_LoadedSweepIsPositive ==
    specs.loaded => \A g \in DOMAIN specs.table : specs.table[g].sweep_rad > 0

\* C9: summarize_label_sweep never raises, and when no sample is in sweep it
\* returns in_sweep = 0 and min_fraction = max_fraction = 0.0.
C9_AuditorNeverRaises ==
    result.op = "summarize_label_sweep" =>
        /\ result.out.status = "ok"
        /\ (\A i \in 1..Len(samples) :
                needle_fraction(samples[i], result.spec, TRUE).status # "ok")
              => /\ result.out.value.in_sweep = 0
                 /\ result.out.value.min_fraction = Zero
                 /\ result.out.value.max_fraction = Zero

\* The samples of the audited list whose strict conversion succeeds / fails.
InSweep(spec) ==
    { i \in 1..Len(samples) : needle_fraction(samples[i], spec, TRUE).status = "ok" }
OutOfSweep(spec) ==
    { i \in 1..Len(samples) : needle_fraction(samples[i], spec, TRUE).status # "ok" }
StrictFraction(i, spec) == needle_fraction(samples[i], spec, TRUE).value

\* C10: a returned LabelSummary counts all samples, the strict successes and
\* the strict failures, the two counts add up to the total, and min_fraction
\* and max_fraction are the least and greatest fraction among the successes.
C10_SummaryCountsAndRange ==
    (result.op = "summarize_label_sweep" /\ result.out.status = "ok") =>
        LET s == result.out.value
            ok == InSweep(result.spec)
        IN  /\ s.total_samples = Len(samples)
            /\ s.in_sweep = Cardinality(ok)
            /\ s.out_of_sweep = Cardinality(OutOfSweep(result.spec))
            /\ s.in_sweep + s.out_of_sweep = s.total_samples
            /\ RatLE(s.min_fraction, s.max_fraction)
            /\ ok # {} =>
                  /\ \E i \in ok : StrictFraction(i, result.spec) = s.min_fraction
                  /\ \E i \in ok : StrictFraction(i, result.spec) = s.max_fraction
                  /\ \A i \in ok :
                        /\ RatLE(s.min_fraction, StrictFraction(i, result.spec))
                        /\ RatLE(StrictFraction(i, result.spec), s.max_fraction)

\* C10 witness: a summary over one in-sweep and one out-of-sweep sample.
C10_Witness ==
    /\ result.op = "summarize_label_sweep"
    /\ result.out.status = "ok"
    /\ result.out.value.in_sweep = 1
    /\ result.out.value.out_of_sweep = 1
    /\ result.out.value.min_fraction # Zero

\* ======================================================================
\* Split partitioner claims (specification SpecSplit)
\* ======================================================================
Ran(seq) == { seq[i] : i \in DOMAIN seq }

SplitReturned == result.op = "_split_examples" /\ result.out.status = "ok"

\* C1: the train, val and test lists of a returned split are pairwise
\* disjoint and together hold every input example exactly once.
C1_SplitIsPartition ==
    SplitReturned =>
        LET train == result.out.value.train_examples
            val == result.out.value.val_examples
            test == result.out.value.test_examples
        IN  /\ Ran(train) \cap Ran(val) = {}
            /\ Ran(train) \cap Ran(test) = {}
            /\ Ran(val) \cap Ran(test) = {}
            /\ Ran(train) \cup Ran(val) \cup Ran(test) = Ran(result.examples)
            /\ Len(train) + Len(val) + Len(test) = Len(result.examples)

\* C1 witness: four examples have been split into two, one and one.
C1_Witness ==
    /\ SplitReturned
    /\ Len(result.examples) = 4
    /\ Len(result.out.value.train_examples) = 2
    /\ Len(result.out.value.val_examples) = 1
    /\ Len(result.out.value.test_examples) = 1

\* C2: a call of _split_examples with the example list, seed and fractions
\* of an earlier call has the outcome of that call, whatever was called in
\* between.
C2_SplitIsDeterministic ==
    ( /\ result.op = "_split_examples"
      /\ firstSplit.op = "_split_examples"
      /\ result.examples = firstSplit.examples )
        => result.out = firstSplit.out

\* C2 witness: the first list of the run has been split again after other
\* calls, and the split was returned.
C2_Witness ==
    /\ SplitReturned
    /\ firstSplit.op = "_split_examples"
    /\ firstSplit.others
    /\ result.examples = firstSplit.examples
    /\ Len(result.out.value.train_examples) = 2

\* The place of an example in the input list.
PlaceIn(examples, e) == CHOOSE i \in DOMAIN examples : examples[i] = e

KeepsInputOrder(part, examples) ==
    \A i, j \in DOMAIN part :
        i < j => PlaceIn(examples, part[i]) < PlaceIn(examples, part[j])

\* C3 (as claimed): each of train, val and test keeps the relative order
\* its examples have in the input list.
C3_SplitKeepsInputOrder ==
    SplitReturned =>
        /\ KeepsInputOrder(result.out.value.train_examples, result.examples)
        /\ KeepsInputOrder(result.out.value.val_examples, result.examples)
        /\ KeepsInputOrder(result.out.value.test_examples, result.examples)

\* C3 (amended): each of train, val and test is in the order of the seeded
\* shuffle: test is a prefix of the seeded permutation of the input list,
\* val is a prefix and train the remaining suffix of the seeded permutation
\* (same seed) of the examples the first shuffle left over.
C3_SplitKeepsShuffleOrder ==
    SplitReturned =>
        LET examples == result.examples
            train == result.out.value.train_examples
            val == result.out.value.val_examples
            test == result.out.value.test_examples
            n == Len(examples)
            m == n - Len(test)
            first == Permutation(config.seed, n)
            second == Permutation(config.seed, m)
            rest == [k \in 1..m |-> examples[first[Len(test) + k]]]
        IN  /\ test = [k \in 1..Len(test) |-> examples[first[k]]]
            /\ Len(val) + Len(train) = m
            /\ val = [k \in 1..Len(val) |-> rest[second[k]]]
            /\ train = [k \in 1..Len(train) |-> rest[second[Len(val) + k]]]

\* C3 witness: a returned train list that is not in input order.
C3_Witness ==
    /\ SplitReturned
    /\ ~KeepsInputOrder(result.out.value.train_examples, result.examples)

\* The fractions the split contract excludes.
FractionsInvalid ==
    \/ ~(RatLT(Zero, config.val_fraction) /\ RatLT(config.val_fraction, One))
    \/ ~(RatLT(Zero, config.test_fraction) /\ RatLT(config.test_fraction, One))
    \/ config.val_fraction.num * config.test_fraction.den
         + config.test_fraction.num * config.val_fraction.den
       >= config.val_fraction.den * config.test_fraction.den

\* C4: _validate_split_config raises ValueError on invalid fractions and has
\* no objection to valid ones; _split_examples raises ValueError, and returns
\* no DatasetSplit, on fewer than 3 examples or invalid fractions.
C4_InvalidSplitIsRejected ==
    /\ result.op = "_validate_split_config" =>
          /\ FractionsInvalid => result.out.status = "ValueError"
          /\ ~FractionsInvalid =>
                \/ result.out.status = "ok"
                \/ result.out = ValueError("mobilenet_warmup_epochs must be >= 0.")
    /\ (result.op = "_split_examples"
          /\ (Len(result.examples) < 3 \/ FractionsInvalid))
            => result.out.status = "ValueError"

\* C4 witness: a config whose fractions are each in (0, 1) and add up to
\* exactly 1 has been rejected by the validation.
C4_Witness ==
    /\ result.op = "_validate_split_config"
    /\ result.out.status = "ValueError"
    /\ RatLT(Zero, config.val_fraction) /\ RatLT(config.val_fraction, One)
    /\ RatLT(Zero, config.test_fraction) /\ RatLT(config.test_fraction, One)
    /\ RatAdd(config.val_fraction, config.test_fraction) = One

\* ======================================================================
\* Example builder claims (specification SpecBuild)
\* ======================================================================
BuilderCalled == result.op = "_build_training_examples"
BuilderReturned == BuilderCalled /\ result.out.status = "ok"

\* The samples of the list whose strict sweep validation raises the
\* out-of-sweep error, and those whose center and tip coincide.
StrictFails(i, spec) ==
    needle_fraction(samples[i], spec, TRUE).status = "ValueError"
ZeroLength(i) ==
    /\ samples[i].tip.x = samples[i].center.x
    /\ samples[i].tip.y = samples[i].center.y

\* C11: _build_training_examples never raises; every sample whose strict
\* sweep validation fails is caught, left out of the examples and counted
\* as dropped, whatever strict_labels is.
C11_BuilderNeverRaises ==
    BuilderCalled =>
        /\ result.out.status = "ok"
        /\ \A i \in 1..Len(samples) :
              StrictFails(i, result.spec) =>
                 \A k \in 1..Len(result.out.value.examples) :
                    result.out.value.examples[k].image_path
                        # samples[i].image_path
        /\ result.out.value.dropped
              >= Cardinality({ i \in 1..Len(samples) : StrictFails(i, result.spec) })

\* The direction u of an example is (dx, dy) / hypot(dx, dy) of a non-zero
\* vector: same signs, unit length, and u.x^2 * (dx^2 + dy^2) = dx^2.
IsUnitVectorOf(u, dx, dy) ==
    /\ dx * dx + dy * dy > 0
    /\ SurdSign(u[1]) = (IF dx < 0 THEN -1 ELSE IF dx = 0 THEN 0 ELSE 1)
    /\ SurdSign(u[2]) = (IF dy < 0 THEN -1 ELSE IF dy = 0 THEN 0 ELSE 1)
    /\ RatAdd(SurdSquare(u[1]), SurdSquare(u[2])) = One
    /\ RatMul(SurdSquare(u[1]), FromInt(dx * dx + dy * dy)) = FromInt(dx * dx)
    /\ RatMul(SurdSquare(u[2]), FromInt(dx * dx + dy * dy)) = FromInt(dy * dy)

\* C12: no returned example comes from a sample whose center and tip
\* coincide, each such sample is counted as dropped exactly once (also when
\* it fails the sweep validation too), and every example's needle_unit_xy
\* is tip - center divided by its non-zero length.
C12_ZeroLengthNeedleIsDropped ==
    BuilderReturned =>
        LET out == result.out.value
        IN  /\ \A i \in 1..Len(samples) :
                  ZeroLength(i) =>
                     \A k \in 1..Len(out.examples) :
                        out.examples[k].image_path # samples[i].image_path
            /\ out.dropped =
                  Cardinality({ i \in 1..Len(samples) :
                                  StrictFails(i, result.spec) \/ ZeroLength(i) })
            /\ \A k \in 1..Len(out.examples) :
                  \E i \in 1..Len(samples) :
                     /\ samples[i].image_path = out.examples[k].image_path
                     /\ IsUnitVectorOf(out.examples[k].needle_unit_xy,
                                       samples[i].tip.x - samples[i].center.x,
                                       samples[i].tip.y - samples[i].center.y)

\* C12 witness: the builder met a zero-length needle that passes the sweep
\* validation, next to a sample it kept.
C12_Witness ==
    /\ BuilderReturned
    /\ Len(result.out.value.examples) = 1
    /\ \E i \in 1..Len(samples) :
          ZeroLength(i) /\ ~StrictFails(i, result.spec)

\* The image paths of a list of samples or examples, in order.
PathsOf(seq) == [i \in 1..Len(seq) |-> seq[i].image_path]
IsKept(sample, spec) ==
    /\ needle_fraction(sample, spec, TRUE).status = "ok"
    /\ ~(sample.tip.x = sample.center.x /\ sample.tip.y = sample.center.y)

\* C13: len(examples) + dropped = len(samples); every sample yields one
\* example or is counted once as dropped, and the examples keep the order
\* of their samples.
C13_DropAccounting ==
    BuilderReturned =>
        LET out == result.out.value
        IN  /\ Len(out.examples) + out.dropped = Len(samples)
            /\ PathsOf(out.examples) =
                  PathsOf(SelectSeq(samples,
                                    LAMBDA smp : IsKept(smp, result.spec)))

\* C13 witness: of two samples one became an example and one was dropped.
C13_Witness ==
    /\ BuilderReturned
    /\ Len(samples) = 2
    /\ Len(result.out.value.examples) = 1
    /\ result.out.value.dropped = 1
    /\ StrictFails(1, result.spec)

\* C14: the builder's outcome does not depend on strict_labels, and every
\* returned value lies between spec.min_value and spec.max_value.
C14_ValidationIgnoresStrictLabels ==
    BuilderCalled =>
        /\ result.out = _build_training_examples(samples, result.spec,
                                                 ~result.strict_labels,
                                                 result.crop_pad_ratio)
        /\ result.out.status = "ok" =>
              \A k \in 1..Len(result.out.value.examples) :
                 /\ RatLE(FromInt(result.spec.min_value),
                          result.out.value.examples[k].value)
                 /\ RatLE(result.out.value.examples[k].value,
                          FromInt(result.spec.max_value))

\* C14 witness: a non-strict build that dropped an out-of-sweep sample and
\* kept another one.
C14_Witness ==
    /\ BuilderReturned
    /\ ~result.strict_labels
    /\ Len(result.out.value.examples) >= 1
    /\ \E i \in 1..Len(samples) : StrictFails(i, result.spec)

\* C15: the crop box is (cx - rx - rx*pad, cy - ry - ry*pad, cx + rx + rx*pad,
\* cy + ry + ry*pad): centred on (cx, cy), of half-width rx * (1 + pad) and
\* half-height ry * (1 + pad); for rx, ry >= 0 and pad >= 0 it is not
\* inverted and contains the ellipse's bounding box; the dial (100, 200, 20,
\* 10) with pad 0.1 gives (78, 189, 122, 211).
C15_CropBoxGeometry ==
    result.op = "_compute_crop_box" =>
        LET box == result.out.value
            dial == result.sample.dial
            pad == result.pad_ratio
            two == FromInt(2)
        IN  /\ RatAdd(box[1], box[3]) = FromInt(2 * dial.cx)
            /\ RatAdd(box[2], box[4]) = FromInt(2 * dial.cy)
            /\ RatSub(box[3], box[1])
                  = RatMul(two, RatMul(FromInt(dial.rx), RatAdd(One, pad)))
            /\ RatSub(box[4], box[2])
                  = RatMul(two, RatMul(FromInt(dial.ry), RatAdd(One, pad)))
            /\ (dial.rx >= 0 /\ dial.ry >= 0 /\ RatLE(Zero, pad)) =>
                  /\ RatLE(box[1], box[3])
                  /\ RatLE(box[2], box[4])
                  /\ RatLE(box[1], FromInt(dial.cx - dial.rx))
                  /\ RatLE(box[2], FromInt(dial.cy - dial.ry))
                  /\ RatLE(FromInt(dial.cx + dial.rx), box[3])
                  /\ RatLE(FromInt(dial.cy + dial.ry), box[4])
            /\ (dial = EllipseLabel(100, 200, 20, 10) /\ pad = Rat(1, 10)) =>
                  box = << FromInt(78), FromInt(189), FromInt(122), FromInt(211) >>

\* C15 witness: the crop box of the dial (100, 200, 20, 10) with pad 0.1.
C15_Witness ==
    /\ result.op = "_compute_crop_box"
    /\ result.sample.dial = EllipseLabel(100, 200, 20, 10)
    /\ result.pad_ratio = Rat(1, 10)
    /\ result.out.value[1] = FromInt(78)

\* ======================================================================
\* Classical needle detector claims (specification SpecDetect)
\* ======================================================================
DetectCalled == result.op = "detect_needle_unit_vector"
Detected ==
    /\ DetectCalled
    /\ result.out.status = "ok"
    /\ result.out.value.detected

\* The rows the line transform returned, and those of maximum score.
RowsFound == scene.image_bgr.lines.rows
IsMaxScoring(i) ==
    \A j \in 1..Len(RowsFound) :
       ~SurdLT(Score(RowsFound[i], scene.center_xy),
               Score(RowsFound[j], scene.center_xy))

\* The distance from the center to an endpoint e of a row, the greater of
\* the two distances of a row, and the unit vector from the center to e.
EndpointDist(e) ==
    Hypot(RatSub(e[1], scene.center_xy[1]), RatSub(e[2], scene.center_xy[2]))
FartherDist(line) ==
    SurdMax(EndpointDist(<< line[1], line[2] >>),
            EndpointDist(<< line[3], line[4] >>))
PointsTo(unit_dx, unit_dy, e) ==
    /\ EndpointDist(e) # SurdZero
    /\ unit_dx = RatDivSurd(RatSub(e[1], scene.center_xy[1]), EndpointDist(e))
    /\ unit_dy = RatDivSurd(RatSub(e[2], scene.center_xy[2]), EndpointDist(e))

TransformRan ==
    /\ scene.image_bgr.format = "bgr"
    /\ RatLT(One, scene.dial_radius_px)
BestTipAtCenter ==
    /\ scene.image_bgr.lines.found
    /\ \A i \in 1..Len(RowsFound) :
          IsMaxScoring(i) => SurdLE(FartherDist(RowsFound[i]), Eps)

C18_SmallRadiusIsNoDetection ==
    (DetectCalled /\ RatLE(scene.dial_radius_px, One))
    => result.out = Returned(None)

\* C18 witness: radius exactly 1.0 on an image cv2.cvtColor would reject and
\* for which the line transform has rows: no detection, no error.
C18_Witness ==
    /\ DetectCalled
    /\ scene.dial_radius_px = One
    /\ scene.image_bgr.format = "gray"
    /\ scene.image_bgr.lines.found
    /\ result.out = Returned(None)

\* ======================================================================
\* Classical baseline evaluation claims (specification SpecEval)
\* ======================================================================
EvalCalled == result.op = "evaluate_classical_baseline"

\* The number of samples within the cap.
WithinCap ==
    IF result.max_samples.capped /\ result.max_samples.n < Len(samples)
    THEN result.max_samples.n
    ELSE Len(samples)

\* The ways a sample can fail: its image cannot be read, or the detector
\* returns none for it, or its label is out of sweep.
Unreadable(i) == ~imread(samples[i].image_path).readable
Undetected(i) ==
    /\ imread(samples[i].image_path).readable
    /\ detect_needle_unit_vector(
           imread(samples[i].image_path).image,
           << FromInt(samples[i].center.x), FromInt(samples[i].center.y) >>,
           FromInt(IF samples[i].dial.ry > samples[i].dial.rx
                   THEN samples[i].dial.ry ELSE samples[i].dial.rx))
         = Returned(None)
LabelOutOfSweep(i) == StrictFails(i, result.spec)
SampleFailed(i) == Unreadable(i) \/ Undetected(i) \/ LabelOutOfSweep(i)

\* C19: a failing sample (unreadable image, no detection, or out-of-sweep
\* label) never aborts evaluate_classical_baseline: the call returns, every
\* sample within the cap is attempted, each failed one is counted in
\* failed_samples and has no entry in predictions (so none in MAE / RMSE),
\* and the non-strict true value does not raise.
C19_FailuresDoNotAbortBatch ==
    EvalCalled =>
        /\ result.out.status = "ok"
        /\ result.out.value.attempted_samples = WithinCap
        /\ result.out.value.failed_samples
              = Cardinality({ i \in 1..WithinCap : SampleFailed(i) })
        /\ result.out.value.successful_samples
              = Len(result.out.value.predictions)
        /\ \A i \in 1..WithinCap :
              SampleFailed(i) =>
                 \A k \in 1..Len(result.out.value.predictions) :
                    result.out.value.predictions[k].image_path
                        # samples[i].image_path

\* C20: with no successful detection within the cap (also for an empty
\* list or max_samples = 0) the call returns successful_samples = 0, no
\* predictions, failed_samples = attempted_samples and mae = rmse = NaN.
C20_NoSuccessGivesNaN ==
    (EvalCalled /\ \A i \in 1..WithinCap : Unreadable(i) \/ Undetected(i))
    => result.out = Returned(ClassicalBaselineResult(WithinCap, 0, WithinCap,
                                                     NaN, NaN, << >>))

\* C20 witness: two samples were attempted, one unreadable and one without
\* a detection, and the metrics are NaN.
C20_Witness ==
    /\ EvalCalled
    /\ result.out.status = "ok"
    /\ result.out.value.attempted_samples = 2
    /\ result.out.value.failed_samples = 2
    /\ Unreadable(1)
    /\ Undetected(2)
    /\ result.out.value.mae = NaN
    /\ result.out.value.rmse = NaN

\* C21: max_samples bounds the work of evaluate_classical_baseline. With a
\* cap given, a returned result has attempted_samples = min(max_samples,
\* number of samples); nothing is done with a sample beyond the cap, so the
\* outcome (result or exception) is the outcome of the uncapped call on the
\* samples within the cap and every prediction is of one of those samples;
\* every result has attempted_samples = successful_samples + failed_samples
\* and successful_samples = len(predictions).
C21_CapBoundsTheWork ==
    EvalCalled =>
        /\ result.out = evaluate_classical_baseline(
                            SubSeq(samples, 1, WithinCap), result.spec, NoCap)
        /\ result.out.status = "ok" =>
              /\ result.max_samples.capped =>
                    result.out.value.attempted_samples
                        = (IF result.max_samples.n < Len(samples)
                           THEN result.max_samples.n ELSE Len(samples))
              /\ result.out.value.attempted_samples
                    = result.out.value.successful_samples
                        + result.out.value.failed_samples
              /\ result.out.value.successful_samples
                    = Len(result.out.value.predictions)
              /\ \A k \in 1..Len(result.out.value.predictions) :
                    \E i \in 1..WithinCap :
                       result.out.value.predictions[k].image_path
                           = samples[i].image_path

\* C21 witness: a cap of 1 on two samples; the first one is predicted, the
\* second one, which the detector would also have found, is not attempted.
C21_Witness ==
    /\ EvalCalled
    /\ result.max_samples = Cap(1)
    /\ Len(samples) = 2
    /\ ~Unreadable(2) /\ ~Undetected(2)
    /\ result.out.status = "ok"
    /\ result.out.value.attempted_samples = 1
    /\ result.out.value.successful_samples = 1
    /\ result.out.value.failed_samples = 0
    /\ Len(result.out.value.predictions) = 1

\* ======================================================================
\* Label ingestion claims (specification SpecIngest)
\* ======================================================================
IngestCalled == result.op \in {"parse_cvat_zip", "load_dataset"}

\* The archives a call reads, in sorted order, and their image entries
\* in sorted-archive then document order, each with its archive.
ArchivesRead ==
    IF result.op = "parse_cvat_zip"
    THEN << result.zip_path >>
    ELSE SelectSeq(FileOrder, LAMBDA name : name \in DOMAIN labelled \cap ZipFiles)

RECURSIVE EntriesOf(_)
EntriesOf(zips) ==
    IF zips = << >>
    THEN << >>
    ELSE [k \in 1..Len(labelled[zips[1]]) |->
             [zip_path |-> zips[1], img |-> labelled[zips[1]][k]]]
         \o EntriesOf(Tail(zips))

\* An image entry lacks the dial, the center or the tip label.
LacksLabel(img) ==
    \/ \A k \in 1..Len(img.ellipses) : img.ellipses[k].label # "temp_dial"
    \/ \A k \in 1..Len(img.points) : img.points[k].label # "temp_center"
    \/ \A k \in 1..Len(img.points) : img.points[k].label # "temp_tip"

\* The sample carries labels of the image entry: its dial is one of the
\* entry's temp_dial ellipses, its center and tip are temp_center and
\* temp_tip points of the entry.
IsSampleOf(sample, img) ==
    /\ sample.image_path = RawPath(img.name)
    /\ \E k \in 1..Len(img.ellipses) :
          /\ img.ellipses[k].label = "temp_dial"
          /\ sample.dial = EllipseLabel(img.ellipses[k].cx, img.ellipses[k].cy,
                                        img.ellipses[k].rx, img.ellipses[k].ry)
    /\ \E k \in 1..Len(img.points) :
          /\ img.points[k].label = "temp_center"
          /\ sample.center = Point(img.points[k].points[1], img.points[k].points[2])
    /\ \E k \in 1..Len(img.points) :
          /\ img.points[k].label = "temp_tip"
          /\ sample.tip = Point(img.points[k].points[1], img.points[k].points[2])

\* C23: ingestion never produces a partial dataset. If an image entry of an
\* archive read by parse_cvat_zip or load_dataset lacks the dial, center or
\* tip label, the call fails with the "Missing labels" error naming the
\* archive and the image of the first such entry and returns no samples;
\* otherwise it returns exactly one Sample per image entry, with the entry's
\* three labels, in sorted-archive then document order.
C23_NoPartialDataset ==
    IngestCalled =>
        LET entries == EntriesOf(ArchivesRead)
            lacking == { k \in 1..Len(entries) : LacksLabel(entries[k].img) }
        IN  IF lacking # {}
            THEN /\ result.out.status = "ValueError"
                 /\ result.out.message = "Missing labels"
                 /\ \E k \in lacking :
                       /\ \A j \in lacking : k <= j
                       /\ result.out.zip_path = entries[k].zip_path
                       /\ result.out.file_name = entries[k].img.name
                 /\ "value" \notin DOMAIN result.out
            ELSE /\ result.out.status = "ok"
                 /\ Len(result.out.value) = Len(entries)
                 /\ \A k \in 1..Len(entries) :
                       IsSampleOf(result.out.value[k], entries[k].img)

\* C23 witness: load_dataset read two archives, the first complete, the
\* second with a complete entry followed by one that lacks a label, and
\* failed naming the second archive.
C23_Witness ==
    /\ result.op = "load_dataset"
    /\ Len(ArchivesRead) = 2
    /\ Len(labelled["batch_1.zip"]) = 1
    /\ ~LacksLabel(labelled["batch_1.zip"][1])
    /\ Len(labelled["batch_2.zip"]) = 2
    /\ ~LacksLabel(labelled["batch_2.zip"][1])
    /\ LacksLabel(labelled["batch_2.zip"][2])
    /\ result.out.status = "ValueError"
    /\ result.out.zip_path = "batch_2.zip"

\* ======================================================================
\* Split size claims (specification SpecSplit)
\* ======================================================================
\* C27: for three or more examples and fractions that pass the validation
\* (each in (0, 1), sum below 1), _split_examples returns, and the train,
\* val and test lists of the split are each non-empty.
C27_ValidSplitHasThreeParts ==
    (result.op = "_split_examples" /\ Len(result.examples) >= 3
        /\ ~FractionsInvalid)
    => /\ result.out.status = "ok"
       /\ result.out.value.train_examples # << >>
       /\ result.out.value.val_examples # << >>
       /\ result.out.value.test_examples # << >>

\* ======================================================================
\* Builder against auditor (specification SpecBuild)
\* ======================================================================
\* The in-sweep samples of the list whose center and tip coincide.
DegenerateInSweep(spec) == { i \in InSweep(spec) : ZeroLength(i) }

\* C30: for the same samples and GaugeSpec, when the builder and the
\* auditor both return, the builder's dropped count is at least the
\* summary's out_of_sweep and its examples are at most in_sweep, both
\* differences being the number of in-sweep samples whose center and tip
\* coincide; so dropped = out_of_sweep exactly when there is no such sample.
C30_BuilderAgreesWithAuditor ==
    BuilderReturned =>
        LET summary == summarize_label_sweep(samples, result.spec)
            degenerate == Cardinality(DegenerateInSweep(result.spec))
        IN  /\ summary.status = "ok"
            /\ result.out.value.dropped >= summary.value.out_of_sweep
            /\ Len(result.out.value.examples) <= summary.value.in_sweep
            /\ result.out.value.dropped - summary.value.out_of_sweep = degenerate
            /\ summary.value.in_sweep - Len(result.out.value.examples) = degenerate
            /\ (result.out.value.dropped = summary.value.out_of_sweep)
                  <=> (DegenerateInSweep(result.spec) = {})

\* C30 witness: of two samples one is out of sweep and one is in sweep with
\* its tip on its center; the builder dropped both, the auditor counts one.
C30_Witness ==
    /\ BuilderReturned
    /\ Len(samples) = 2
    /\ Cardinality(DegenerateInSweep(result.spec)) = 1
    /\ result.out.value.dropped = 2
    /\ summarize_label_sweep(samples, result.spec).value.out_of_sweep = 1
    /\ summarize_label_sweep(samples, result.spec).value.in_sweep = 1
    /\ result.out.value.examples = << >>

\* ======================================================================
\* The two angle-to-value conversions (specification SpecEval)
\* ======================================================================
\* The unit vector of the labelled needle of samples[i] (tip # center).
LabelledUnit(i) ==
    LET dx == FromInt(samples[i].tip.x - samples[i].center.x)
        dy == FromInt(samples[i].tip.y - samples[i].center.y)
    IN  << RatDivSurd(dx, Hypot(dx, dy)), RatDivSurd(dy, Hypot(dx, dy)) >>

\* What the detector returns for samples[i], whose image is readable.
DetectionFor(i) ==
    detect_needle_unit_vector(
        imread(samples[i].image_path).image,
        << FromInt(samples[i].center.x), FromInt(samples[i].center.y) >>,
        FromInt(IF samples[i].dial.ry > samples[i].dial.rx
                THEN samples[i].dial.ry ELSE samples[i].dial.rx)).value

\* The detector finds the needle of samples[i] in the labelled direction.
DetectedAsLabelled(i) ==
    /\ ~ZeroLength(i)
    /\ ~Unreadable(i)
    /\ ~Undetected(i)
    /\ << DetectionFor(i).unit_dx, DetectionFor(i).unit_dy >> = LabelledUnit(i)

\* C25: for a GaugeSpec with sweep_rad > 0 and a sample whose needle has a
\* direction, _needle_vector_to_value of that direction equals the
\* non-strict needle_value of the sample; so a sample within the cap that
\* the detector finds in its labelled direction has a prediction whose
\* predicted_value is its true_value and whose abs_error is 0.
C25_ConversionsAgree ==
    (EvalCalled /\ result.spec.sweep_rad > 0) =>
        \A i \in 1..Len(samples) :
            ~ZeroLength(i) =>
                /\ _needle_vector_to_value(LabelledUnit(i)[1], LabelledUnit(i)[2],
                                           result.spec)
                      = needle_value(samples[i], result.spec, FALSE)
                /\ (i <= WithinCap /\ DetectedAsLabelled(i)) =>
                      /\ result.out.status = "ok"
                      /\ \E k \in 1..Len(result.out.value.predictions) :
                            LET p == result.out.value.predictions[k]
                            IN  /\ p.image_path = samples[i].image_path
                                /\ p.predicted_value = p.true_value
                                /\ p.abs_error = Zero

\* C25 witness: on a gauge whose scale starts at 135 degrees, a needle
\* labelled and detected pointing right (beyond the sweep) is predicted at
\* its true value, the clamped max_value, with error 0.
C25_Witness ==
    /\ EvalCalled
    /\ result.spec.min_angle_rad = 3
    /\ result.spec.sweep_rad = 4
    /\ Len(samples) >= 1
    /\ WithinCap >= 1
    /\ DetectedAsLabelled(1)
    /\ samples[1].tip.y = samples[1].center.y
    /\ result.out.status = "ok"
    /\ result.out.value.predictions[1].predicted_value
          = FromInt(result.spec.max_value)
    /\ result.out.value.predictions[1].abs_error = Zero

\* ======================================================================
\* Training run claims (specification SpecTrain)
\* ======================================================================
\* The statements of train that have run, in order.
HasRun(name) == \E k \in 1..Len(run.log) : run.log[k] = name
TrainRaised == run.pc = "raised"
TrainReturned == run.pc = "returned"
LastStatement == run.log[Len(run.log)]

GaugeUnknown == config.gauge_id \notin DOMAIN toml

\* C22: train with a gauge_id that is no key of the calibration table
\* never selects a spec and never gets past the lookup: once the config
\* and runtime checks have passed it raises the "Unknown gauge_id" error
\* for that id, listing the ids of the table; a spec, once selected, is the
\* table's entry for config.gauge_id.
C22_UnknownGaugeIsAnError ==
    /\ GaugeUnknown =>
          /\ run.spec = Unset
          /\ ~HasRun("load_dataset")
          /\ ~TrainReturned
          /\ HasRun("load_gauge_specs") =>
                /\ TrainRaised
                /\ LastStatement = "load_gauge_specs"
                /\ result.out = [status |-> "ValueError",
                                 message |-> "Unknown gauge_id",
                                 gauge_id |-> config.gauge_id,
                                 available |-> DOMAIN toml]
    /\ run.spec # Unset =>
          /\ ~GaugeUnknown
          /\ run.spec.gauge_id = config.gauge_id
          /\ run.spec = load_gauge_specs(toml)[config.gauge_id]

\* C22 witness: gauge_b was asked for with a table that holds gauge_a only,
\* and train raised the error listing gauge_a.
C22_Witness ==
    /\ TrainRaised
    /\ config.gauge_id = "gauge_b"
    /\ DOMAIN toml = {"gauge_a"}
    /\ result.out.status = "ValueError"
    /\ result.out.message = "Unknown gauge_id"
    /\ result.out.available = {"gauge_a"}

\* The config validation was the only statement of train that ran, and it
\* raised a ValueError.
RejectedByValidation ==
    /\ TrainRaised
    /\ run.log = << "_validate_split_config" >>
    /\ result.out.status = "ValueError"

\* C24 as stated: a config with mobilenet_warmup_epochs <= 0 is rejected
\* with a ValueError by the validation at the start of train, before
\* anything else runs.
C24_NonPositiveWarmupIsRejected ==
    (config.mobilenet_warmup_epochs <= 0 /\ HasRun("_validate_split_config"))
    => RejectedByValidation

\* C24, amended: a config with mobilenet_warmup_epochs < 0 is rejected with
\* a ValueError by the validation at the start of train, before anything
\* else runs; mobilenet_warmup_epochs = 0 passes the validation (given
\* valid fractions) and the run then never has a warmup stage.
C24_NegativeWarmupIsRejected ==
    /\ (config.mobilenet_warmup_epochs < 0 /\ HasRun("_validate_split_config"))
       => RejectedByValidation
    /\ (config.mobilenet_warmup_epochs = 0 /\ ~FractionsInvalid)
       => /\ ~RejectedByValidation
          /\ run.pc # "warmup"
          /\ run.fit.stage # "warmup"
          /\ \A k \in 1..Len(run.fits) : run.fits[k].stage # "warmup"

\* C24 witness: valid fractions with mobilenet_warmup_epochs = -1 were
\* rejected by the validation; nothing else ran.
C24_Witness ==
    /\ RejectedByValidation
    /\ ~FractionsInvalid
    /\ config.mobilenet_warmup_epochs = -1
    /\ result.out = ValueError("mobilenet_warmup_epochs must be >= 0.")
    /\ ~specs.loaded

\* The statements of train up to the building of the model, in the order
\* of the source.
StatementOrder ==
    << "_validate_split_config", "_configure_training_runtime", "np.random.seed",
       "load_gauge_specs", "load_dataset", "summarize_label_sweep",
       "_build_training_examples", "_split_examples", "_build_tf_dataset",
       "build_model" >>

\* What each of the four checks of train looks at.
ConfigRejected == _validate_split_config(config).status # "ok"
RuntimeRejected == config.device = "gpu" /\ ~run.gpus
DatasetEmpty == load_dataset(labelled) = Returned(<< >>)
TooFewExamples ==
    /\ HasRun("summarize_label_sweep")
    /\ run.pc # "raised" \/ LastStatement # "summarize_label_sweep"
    /\ LET built == _build_training_examples(samples, run.spec, config.strict_labels,
                                             config.crop_pad_ratio)
       IN  built.status = "ok" /\ Len(built.value.examples) < 3

\* train raised at the statement named, which was the n-th to run.
RaisedAt(name, n) ==
    /\ TrainRaised
    /\ Len(run.log) = n
    /\ LastStatement = name
    /\ result.op = "train"
    /\ result.out.status = "ValueError"

\* C26: train is fail-fast in a fixed order. Its statements run in source
\* order; the config check, the gauge id check, the empty-dataset check
\* and the check for 3 valid examples each raise at their own statement
\* when they fail, in that order of precedence; after a raise no later
\* statement has run: no dataset is loaded after a config or gauge id
\* error, and nothing is split, built, fitted or evaluated after any of
\* the four errors.
C26_TrainFailsFastInOrder ==
    /\ \A k \in 1..Len(run.log) :
          IF k <= Len(StatementOrder)
          THEN run.log[k] = StatementOrder[k]
          ELSE run.log[k] \in {"fit", "evaluate"}
    /\ (ConfigRejected /\ HasRun("_validate_split_config"))
       => RaisedAt("_validate_split_config", 1)
    /\ (~ConfigRejected /\ ~RuntimeRejected /\ GaugeUnknown
          /\ HasRun("load_gauge_specs"))
       => RaisedAt("load_gauge_specs", 4)
    /\ (~ConfigRejected /\ ~RuntimeRejected /\ ~GaugeUnknown /\ DatasetEmpty
          /\ HasRun("load_dataset"))
       => /\ RaisedAt("load_dataset", 5)
          /\ result.out = ValueError("No samples found.")
    /\ (TooFewExamples /\ HasRun("_build_training_examples"))
       => /\ RaisedAt("_build_training_examples", 7)
          /\ result.out = ValueError("Not enough valid examples after filtering invalid sweep labels.")
    /\ (TrainRaised /\ Len(run.log) <= 4)
       => /\ samples = << >>
          /\ run.label_summary = Unset
    /\ (TrainRaised /\ Len(run.log) <= 7)
       => /\ run.examples = << >>
          /\ run.split = Unset
          /\ run.datasets = Unset
          /\ run.model = Unset
          /\ run.fit = NoFit
          /\ run.fits = << >>
    /\ TrainRaised => result.out.status # "ok"
    /\ TrainReturned
       => /\ ~ConfigRejected /\ ~RuntimeRejected /\ ~GaugeUnknown /\ ~DatasetEmpty
          /\ Len(run.examples) >= 3

\* C26 witness: three samples were loaded, one of them out of sweep; train
\* raised for too few examples, and nothing was split or built.
C26_Witness ==
    /\ RaisedAt("_build_training_examples", 7)
    /\ Len(samples) = 3
    /\ run.label_summary.out_of_sweep = 1
    /\ run.split = Unset
    /\ run.model = Unset

\* The fits of the run so far: the finished ones, then the running one.
FitsSoFar == IF run.fit = NoFit THEN run.fits ELSE Append(run.fits, run.fit)

\* The condition under which training is staged, and the warmup length.
Staged ==
    /\ config.model_family = "mobilenet_v2"
    /\ config.mobilenet_pretrained
    /\ config.mobilenet_backbone_trainable
    /\ config.mobilenet_warmup_epochs > 0
    /\ config.epochs > 1
W == IF config.mobilenet_warmup_epochs <= config.epochs - 1
     THEN config.mobilenet_warmup_epochs ELSE config.epochs - 1

RECURSIVE EpochsRun(_)
EpochsRun(fits) ==
    IF fits = << >> THEN 0 ELSE Len(fits[1].ran) + EpochsRun(Tail(fits))

\* C28: training is staged exactly when the model is a pretrained
\* MobileNetV2 with a trainable backbone, mobilenet_warmup_epochs > 0 and
\* epochs > 1. A staged run fits twice: a warmup of W = min(warmup epochs,
\* epochs - 1) epochs, 1 <= W <= epochs - 1, without callbacks and with
\* the backbone frozen in every epoch; then, the backbone unfrozen and the
\* model compiled again, a fine-tune fit from initial_epoch = W up to
\* epochs with the callbacks and the backbone trainable in every epoch;
\* both together run at most config.epochs epochs. Every other run has
\* exactly one fit, of config.epochs epochs with the callbacks.
C28_StagedTrainingSchedule ==
    HasRun("build_model") =>
        /\ run.pc = "warmup" => Staged
        /\ run.pc = "single" => ~Staged
        /\ run.pc = "fine_tune" => (Staged /\ Len(run.fits) = 1)
        /\ Len(FitsSoFar) <= (IF Staged THEN 2 ELSE 1)
        /\ \A k \in 1..Len(FitsSoFar) :
              LET f == FitsSoFar[k]
              IN  IF ~Staged
                  THEN /\ f.stage = "single"
                       /\ f.epochs = config.epochs
                       /\ f.initial_epoch = 0
                       /\ f.callbacks = {"EarlyStopping", "ReduceLROnPlateau"}
                  ELSE IF k = 1
                  THEN /\ f.stage = "warmup"
                       /\ f.epochs = W
                       /\ 1 <= W /\ W <= config.epochs - 1
                       /\ f.initial_epoch = 0
                       /\ f.callbacks = {}
                       /\ \A e \in 1..Len(f.ran) : ~f.ran[e].backbone.trainable
                  ELSE /\ f.stage = "fine_tune"
                       /\ Len(FitsSoFar[1].ran) = W
                       /\ f.epochs = config.epochs
                       /\ f.initial_epoch = W
                       /\ f.callbacks = {"EarlyStopping", "ReduceLROnPlateau"}
                       /\ \A e \in 1..Len(f.ran) :
                             /\ f.ran[e].backbone.trainable
                             /\ f.ran[e].epoch >= W
        /\ (run.pc = "fit" /\ run.fit.stage = "warmup")
           => /\ ~run.model.backbone.trainable
              /\ run.model.compiled = [done |-> TRUE, backbone |-> run.model.backbone]
        /\ (run.pc = "fit" /\ run.fit.stage = "fine_tune")
           => /\ run.model.backbone.trainable
              /\ run.model.compiled = [done |-> TRUE, backbone |-> run.model.backbone]
        /\ EpochsRun(FitsSoFar) <= config.epochs
        /\ TrainReturned => Len(run.fits) = (IF Staged THEN 2 ELSE 1)

\* C28 witness: a staged run of 10 epochs with 8 warmup epochs asked for
\* returned after a frozen warmup of 8 epochs and a fine-tune of 2.
C28_Witness ==
    /\ TrainReturned
    /\ Staged
    /\ config.epochs = 10
    /\ Len(run.fits) = 2
    /\ Len(run.fits[1].ran) = 8
    /\ Len(run.fits[2].ran) = 2
    /\ ~run.fits[1].ran[8].backbone.trainable
    /\ run.fits[2].ran[1].backbone.trainable
    /\ run.fits[2].ran[1].epoch = 8


\* ------------------------------------------------------------------ C29
Started(p) == script[p].pc # "not_started"
Finished(p) == script[p].pc = "done"
ArtifactNames == {"model.keras", "history.json", "metrics.json"}
ArtifactKind(name) == CASE name = "model.keras" -> "model" [] name = "history.json" -> "history" [] OTHER -> "metrics"

\* The artifacts a finished run wrote are still what its folder holds.
KeepsItsArtifacts(p) ==
    \A name \in ArtifactNames :
        [path |-> Path(script[p].run_dir, name), content |-> Artifact(ArtifactKind(name), p)] \in disk.files

\* C29: each run of the training script has a run folder of its own: no two
\* runs that have made their folder share it, whether the name came from
\* --run-name or from the timestamp, and the model.keras, history.json and
\* metrics.json a finished run wrote are never overwritten by another run.
C29_RunFolderIsUnique ==
    /\ \A p, q \in ScriptRuns :
          (p # q /\ Started(p) /\ Started(q)) => script[p].run_dir # script[q].run_dir
    /\ \A p \in ScriptRuns : Finished(p) => KeepsItsArtifacts(p)

====
